---- MODULE Spec2Model ----
(***************************************************************************)
(* Regime / signal / sizing core of the crypto-quant-trading repository.   *)
(*                                                                         *)
(* Numbers are exact integers in fixed units:                              *)
(*   trend strength (ADX)      tenths of a point        (23 -> 230)        *)
(*   order-book spread         tenths of a basis point  (2.0 -> 20)        *)
(*   order-book depth          quote currency units                        *)
(*   order-book imbalance      hundredths               (0.8 -> 80)        *)
(*   risk / cooldown scales    ten-thousandths          (0.6 -> 6000)      *)
(* An optional value is <<>> (None / NaN) or <<v>>.                        *)
(***************************************************************************)
EXTENDS Integers, Sequences, FiniteSets, TLC

VARIABLES
    pc,          \* position of start_trade within one cycle
    prev_base,   \* RegimeState.prev_base, owned by the caller's loop
    df_adx,      \* the adx_14 column of indicators_1h handed to the classifier
    base,        \* local `base` of start_trade
    adx,         \* local `adx` of start_trade (optional)
    dr_in,       \* arguments of one decide_regime call
    regime,      \* the Decision it returned (optional)
    vol_df,      \* natr_14 and bb_width columns handed to classify_vol_state
    vol_out,     \* what classify_vol_state returned (optional)
    sig_in,      \* arguments of one build_signal call
    sig_layers,  \* its direction, trigger and validity results (optional)
    signal,      \* the SignalSnapshot it returned (optional)
    bt_pos,      \* account["positions"][symbol] of the backtest (optional)
    trail,       \* what the last backtest cycle did to that position's stop
    size_in,     \* arguments of one signal_to_trade_plan call
    plan,        \* the TradePlan it returned (optional)
    plan_half,   \* the TradePlan returned at half that account value (optional)
    leg_in,      \* what generate_trade_plan gathered from account and market data
    leg_plan,    \* the TradePlan generate_trade_plan returned (optional)
    deg_in,      \* build_signal arguments whose tables may lack columns
    deg_out,     \* what each layer and build_signal did: returned or raised (optional)
    scan_in,     \* arguments of one _scan_sl_tp_barwise call
    scan_out,    \* <<its return value>> once it has returned, <<>> before
    pipe_in,     \* a decision time of the backtest: tables, Decision, account, asset
    pipe_out,    \* the signal, the plan and the fill of that decision time (optional)
    bt_account,  \* the backtest account: cash, positions by symbol, trades (optional)
    bt_call      \* the last bt_* call: its arguments, the account before it, its return

vars == <<pc, prev_base, df_adx, base, adx, dr_in, regime, vol_df, vol_out,
          sig_in, sig_layers, signal, bt_pos, trail, size_in, plan, plan_half,
          leg_in, leg_plan, deg_in, deg_out, scan_in, scan_out, pipe_in, pipe_out,
          bt_account, bt_call>>
varsLegacy == <<leg_in, leg_plan>>
varsDegraded == <<deg_in, deg_out>>
varsSize == <<size_in, plan, plan_half>>
varsTrail == <<bt_pos, trail>>
varsSignal == <<sig_in, sig_layers, signal>>
varsEngine == <<pc, prev_base, df_adx, base, adx>>
varsDecide == <<dr_in, regime>>
varsVol == <<vol_df, vol_out>>
varsScan == <<scan_in, scan_out>>
varsPipe == <<pipe_in, pipe_out>>
varsAccount == <<bt_account, bt_call>>

None == <<>>
Some(x) == <<x>>
IsNone(o) == o = <<>>
Val(o) == o[1]

Max(a, b) == IF a >= b THEN a ELSE b
Min(a, b) == IF a <= b THEN a ELSE b
Abs(a) == IF a < 0 THEN -a ELSE a

MarketRegime == {"TREND", "MIXED", "RANGE", "UNKNOWN"}
VolState == {"LOW", "NORMAL", "HIGH", "UNKNOWN"}
Slope == {"UP", "DOWN", "FLAT", "UNKNOWN"}

(***************************************************************************)
(* classify_trend_range (src/data/analyzer.py)                             *)
(***************************************************************************)
MinAdxSamples == 50
AdxExitTrend == 230     \* adx < 23
AdxExitRange == 190     \* adx > 19
AdxEnterTrend == 260    \* adx >= 26
AdxEnterRange == 170    \* adx <= 17

\* The adx_14 column: `warm` older non-missing samples (the last of them
\* warm_val) followed by the explicit latest samples `tail`, each <<>> (NaN)
\* or <<v>>.  A table without the column, or no table, is has_col = FALSE.
RECURSIVE DropNa(_)
DropNa(s) ==
    IF s = <<>> THEN <<>>
    ELSE IF IsNone(Head(s)) THEN DropNa(Tail(s))
    ELSE <<Val(Head(s))>> \o DropNa(Tail(s))

DropNaLen(col) == col.warm + Len(DropNa(col.tail))

DropNaOldest(col) ==
    LET t == DropNa(col.tail)
    IN IF t # <<>> THEN t[1] ELSE col.warm_val

DropNaLast(col) ==
    LET t == DropNa(col.tail)
    IN IF t # <<>> THEN t[Len(t)] ELSE col.warm_val

HysteresisNoMemory(prev, a) ==
    IF a >= AdxEnterTrend THEN "TREND"
    ELSE IF a <= AdxEnterRange THEN "RANGE"
    ELSE "MIXED"

Hysteresis(prev, a) ==
    IF prev = "TREND"
    THEN (IF a < AdxExitTrend THEN "MIXED" ELSE "TREND")
    ELSE IF prev = "RANGE"
    THEN (IF a > AdxExitRange THEN "MIXED" ELSE "RANGE")
    ELSE IF a >= AdxEnterTrend THEN "TREND"
    ELSE IF a <= AdxEnterRange THEN "RANGE"
    ELSE "MIXED"

classify_trend_range_keeps_prev(col, prev) ==
    IF ~col.has_col THEN <<"UNKNOWN", None>>
    ELSE IF DropNaLen(col) < MinAdxSamples THEN <<prev, None>>
    ELSE <<Hysteresis(prev, DropNaLast(col)), Some(DropNaLast(col))>>

\* returns <<label, optional strength>>
classify_trend_range(col, prev) ==
    IF ~col.has_col THEN <<"UNKNOWN", None>>
    ELSE IF DropNaLen(col) < MinAdxSamples THEN <<"UNKNOWN", None>>
    ELSE <<Hysteresis(prev, DropNaLast(col)), Some(DropNaLast(col))>>

(***************************************************************************)
(* decide_regime (src/strategy/regime.py)                                  *)
(***************************************************************************)
DefaultMinDepth == 200000
DefaultImbalanceLimit == 80
AdxWeak == 200           \* adx < 20 disables trend
AdxStrongPullback == 250 \* adx > 25 lets a fading trend pass
HardRiskScale == 0
HardCooldownScale == 20000
HighVolRisk == 6000
HighVolCooldown == 20000
LowVolRisk == 8000
LowVolCooldown == 15000
NormalRisk == 10000
NormalCooldown == 10000
FadingTrendPct == 75     \* risk_scale *= 0.75
StrictProbePct == 70     \* risk_scale *= 0.7

\* TimingState(): both slope states UNKNOWN
DefaultTiming == [adx_slope |-> "UNKNOWN", bbw_slope |-> "UNKNOWN"]

\* `x or 0.0`
OrZero(o) == IF IsNone(o) THEN 0 ELSE Val(o)

Cond(c, s) == IF c THEN <<s>> ELSE <<>>

\* lines 96-106: what decide_regime reads off the (optional) order book
BookView(order_book) ==
    IF IsNone(order_book)
    THEN [spread_bps |-> None, depth |-> 0, imbalance |-> None]
    ELSE [spread_bps |-> Some(Val(order_book).spread_bps),
          depth |-> OrZero(Val(order_book).bid_depth_value)
                    + OrZero(Val(order_book).ask_depth_value),
          imbalance |-> Some(Val(order_book).imbalance)]

\* Step 1, lines 118-126
HardReasons(b, a, vol_state, order_book, max_spread_bps) ==
    LET v == BookView(order_book) IN
    Cond(b = "UNKNOWN" \/ vol_state = "UNKNOWN", "regime or vol_state unknown")
    \o Cond(~IsNone(v.spread_bps) /\ Val(v.spread_bps) > max_spread_bps,
            "spread too wide")
    \o Cond(IsNone(a), "ADX missing")

HardStopFreezesManage(b, a, vol_state, order_book, hard_reasons) ==
    [action |-> "NO_NEW_ENTRY", regime |-> b,
     allow_trend |-> FALSE, allow_mean |-> FALSE, strict_entry |-> FALSE,
     allow_new_entry |-> FALSE, allow_manage |-> FALSE, allow_flip |-> FALSE,
     risk_scale |-> HardRiskScale, cooldown_scale |-> HardCooldownScale,
     reasons |-> hard_reasons,
     adx |-> a, vol_state |-> vol_state, order_book |-> order_book]

\* lines 128-137
HardStop(b, a, vol_state, order_book, hard_reasons) ==
    [action |-> "NO_NEW_ENTRY", regime |-> b,
     allow_trend |-> FALSE, allow_mean |-> FALSE, strict_entry |-> FALSE,
     allow_new_entry |-> FALSE, allow_manage |-> TRUE, allow_flip |-> FALSE,
     risk_scale |-> HardRiskScale, cooldown_scale |-> HardCooldownScale,
     reasons |-> hard_reasons,
     adx |-> a, vol_state |-> vol_state, order_book |-> order_book]

GatesFadeBlocksStrong(b, adx_val, vol_state, timing) ==
    LET allow_trend0 == b \in {"TREND", "MIXED"}
        allow_mean0 == b \in {"RANGE", "MIXED"}
        g_high == vol_state = "HIGH" /\ allow_mean0
        allow_mean1 == IF vol_state = "HIGH" THEN FALSE ELSE allow_mean0
        strict_entry == vol_state = "LOW" /\ timing.bbw_slope # "UP"
        g_weak == adx_val < AdxWeak /\ allow_trend0
        allow_trend1 == IF adx_val < AdxWeak THEN FALSE ELSE allow_trend0
        g_fade == timing.adx_slope = "DOWN" /\ allow_trend1
        g_bbw == timing.bbw_slope = "UP" /\ b \in {"RANGE", "MIXED"} /\ allow_mean1
    IN [allow_trend |-> IF g_fade THEN FALSE ELSE allow_trend1,
        allow_mean |-> IF g_bbw THEN FALSE ELSE allow_mean1,
        strict_entry |-> strict_entry,
        gate_logs |->
            Cond(g_high, "gate: high vol disables mean")
            \o Cond(strict_entry, "gate: low vol -> strict entry (no expansion)")
            \o Cond(vol_state = "LOW" /\ timing.bbw_slope = "UP",
                    "gate: low vol but bbw expanding -> ok")
            \o Cond(g_weak, "gate: adx too weak")
            \o Cond(g_fade, "gate: adx fading & slope down")
            \o Cond(g_bbw, "gate: bbw expanding disables mean")]

\* Step 2, lines 109-110 and 142-179: allow_trend / allow_mean / strict_entry
Gates(b, adx_val, vol_state, timing) ==
    LET allow_trend0 == b \in {"TREND", "MIXED"}
        allow_mean0 == b \in {"RANGE", "MIXED"}
        g_high == vol_state = "HIGH" /\ allow_mean0
        allow_mean1 == IF vol_state = "HIGH" THEN FALSE ELSE allow_mean0
        strict_entry == vol_state = "LOW" /\ timing.bbw_slope # "UP"
        g_weak == adx_val < AdxWeak /\ allow_trend0
        allow_trend1 == IF adx_val < AdxWeak THEN FALSE ELSE allow_trend0
        g_fade == timing.adx_slope = "DOWN" /\ allow_trend1
                  /\ ~(adx_val > AdxStrongPullback)
        g_bbw == timing.bbw_slope = "UP" /\ b \in {"RANGE", "MIXED"} /\ allow_mean1
    IN [allow_trend |-> IF g_fade THEN FALSE ELSE allow_trend1,
        allow_mean |-> IF g_bbw THEN FALSE ELSE allow_mean1,
        strict_entry |-> strict_entry,
        gate_logs |->
            Cond(g_high, "gate: high vol disables mean")
            \o Cond(strict_entry, "gate: low vol -> strict entry (no expansion)")
            \o Cond(vol_state = "LOW" /\ timing.bbw_slope = "UP",
                    "gate: low vol but bbw expanding -> ok")
            \o Cond(g_weak, "gate: adx too weak")
            \o Cond(g_fade, "gate: adx fading & slope down")
            \o Cond(g_bbw, "gate: bbw expanding disables mean")]

ThinBookInverted(order_book, depth, min_depth) ==
    ~IsNone(order_book) /\ depth > min_depth

\* line 185
ThinBook(order_book, depth, min_depth) ==
    ~IsNone(order_book) /\ 0 < depth /\ depth < min_depth

\* Step 3, lines 185-195
SoftReasons(b, vol_state, order_book, min_depth, imbalance_limit) ==
    LET v == BookView(order_book) IN
    Cond(ThinBook(order_book, v.depth, min_depth), "order book thin")
    \o Cond(~IsNone(v.imbalance) /\ Abs(Val(v.imbalance)) > imbalance_limit,
            "extreme imbalance")
    \o Cond(vol_state = "HIGH" /\ b \in {"RANGE", "MIXED"},
            "high vol + range: whipsaw risk")
    \o Cond(IsNone(order_book), "order book missing")

RiskScalesAnyFade(vol_state, adx_slope_state, allow_trend, adx_val, strict_entry) ==
    LET risk0 == IF vol_state = "HIGH" THEN HighVolRisk
                 ELSE IF vol_state = "LOW" THEN LowVolRisk ELSE NormalRisk
        cooldown == IF vol_state = "HIGH" THEN HighVolCooldown
                    ELSE IF vol_state = "LOW" THEN LowVolCooldown
                    ELSE NormalCooldown
        risk1 == IF adx_slope_state = "DOWN" /\ adx_val > AdxStrongPullback
                 THEN (risk0 * FadingTrendPct) \div 100 ELSE risk0
        risk2 == IF vol_state = "LOW" /\ strict_entry
                 THEN (risk1 * StrictProbePct) \div 100 ELSE risk1
    IN <<risk2, cooldown>>

\* Step 4, lines 200-214: <<risk_scale, cooldown_scale>>
RiskScales(vol_state, adx_slope_state, allow_trend, adx_val, strict_entry) ==
    LET risk0 == IF vol_state = "HIGH" THEN HighVolRisk
                 ELSE IF vol_state = "LOW" THEN LowVolRisk ELSE NormalRisk
        cooldown == IF vol_state = "HIGH" THEN HighVolCooldown
                    ELSE IF vol_state = "LOW" THEN LowVolCooldown
                    ELSE NormalCooldown
        risk1 == IF adx_slope_state = "DOWN" /\ allow_trend
                    /\ adx_val > AdxStrongPullback
                 THEN (risk0 * FadingTrendPct) \div 100 ELSE risk0
        risk2 == IF vol_state = "LOW" /\ strict_entry
                 THEN (risk1 * StrictProbePct) \div 100 ELSE risk1
    IN <<risk2, cooldown>>

DeadEndNever(g) == FALSE

\* line 231
DeadEnd(g) == ~g.allow_trend /\ ~g.allow_mean

decide_regime(b, a, vol_state, order_book, timing_in, max_spread_bps, min_depth, imbalance_limit) ==
    LET timing == IF IsNone(timing_in) THEN DefaultTiming ELSE Val(timing_in)
        hard_reasons == HardReasons(b, a, vol_state, order_book, max_spread_bps)
    IN
    IF hard_reasons # <<>> THEN HardStop(b, a, vol_state, order_book, hard_reasons)
    ELSE
    LET adx_val == Val(a)
        g == Gates(b, adx_val, vol_state, timing)
        soft_reasons == SoftReasons(b, vol_state, order_book, min_depth,
                                    imbalance_limit)
        rs == RiskScales(vol_state, timing.adx_slope, g.allow_trend, adx_val,
                         g.strict_entry)
    IN
    IF soft_reasons # <<>> THEN
        [action |-> "NO_NEW_ENTRY", regime |-> b,
         allow_trend |-> g.allow_trend, allow_mean |-> g.allow_mean,
         strict_entry |-> g.strict_entry,
         allow_new_entry |-> FALSE, allow_manage |-> TRUE, allow_flip |-> FALSE,
         risk_scale |-> rs[1], cooldown_scale |-> rs[2],
         reasons |-> soft_reasons \o g.gate_logs,
         adx |-> a, vol_state |-> vol_state, order_book |-> order_book]
    ELSE IF DeadEnd(g) THEN
        [action |-> "NO_NEW_ENTRY", regime |-> b,
         allow_trend |-> FALSE, allow_mean |-> FALSE, strict_entry |-> FALSE,
         allow_new_entry |-> FALSE, allow_manage |-> TRUE, allow_flip |-> FALSE,
         risk_scale |-> rs[1], cooldown_scale |-> rs[2],
         reasons |-> IF g.gate_logs # <<>> THEN g.gate_logs
                     ELSE <<"logic gap: no strategy fits">>,
         adx |-> a, vol_state |-> vol_state, order_book |-> order_book]
    ELSE
        [action |-> "OK", regime |-> b,
         allow_trend |-> g.allow_trend, allow_mean |-> g.allow_mean,
         strict_entry |-> g.strict_entry,
         allow_new_entry |-> TRUE, allow_manage |-> TRUE, allow_flip |-> FALSE,
         risk_scale |-> rs[1], cooldown_scale |-> rs[2],
         reasons |-> <<"ok: regime">>,
         adx |-> a, vol_state |-> vol_state, order_book |-> order_book]

(***************************************************************************)
(* classify_vol_state (src/strategy/regime.py).  A column is a time-ordered *)
(* sequence of runs [v, n]: n consecutive rows holding the value v, or NaN *)
(* when v is None.  Percentiles are kept multiplied by QuantileDen, which  *)
(* makes the linear interpolation of Series.quantile exact.                *)
(***************************************************************************)
VolWindow == 200
QuantileDen == 5
LowQuantileNum == 1
HighQuantileNum == 4

RECURSIVE DropNaRuns(_)
DropNaRuns(runs) ==
    IF runs = <<>> THEN <<>>
    ELSE IF IsNone(Head(runs).v) THEN DropNaRuns(Tail(runs))
         ELSE <<[v |-> Val(Head(runs).v), n |-> Head(runs).n]>> \o DropNaRuns(Tail(runs))

RECURSIVE RunsLen(_)
RunsLen(runs) == IF runs = <<>> THEN 0 ELSE Head(runs).n + RunsLen(Tail(runs))

\* series.iloc[-k:]
RECURSIVE TailRuns(_, _)
TailRuns(runs, k) ==
    IF k = 0 \/ runs = <<>> THEN <<>>
    ELSE LET last == runs[Len(runs)]
             rest == SubSeq(runs, 1, Len(runs) - 1)
         IN IF last.n >= k THEN <<[v |-> last.v, n |-> k]>>
            ELSE Append(TailRuns(rest, k - last.n), last)

\* series.iloc[-1]
LastValue(runs) == runs[Len(runs)].v

RECURSIVE CountLE(_, _)
CountLE(runs, x) ==
    IF runs = <<>> THEN 0
    ELSE (IF Head(runs).v <= x THEN Head(runs).n ELSE 0) + CountLE(Tail(runs), x)

\* element i (from 0) of the sorted window
OrderStat(runs, i) ==
    LET vals == {runs[j].v : j \in 1..Len(runs)}
    IN CHOOSE v \in vals :
          /\ CountLE(runs, v) >= i + 1
          /\ \A u \in vals : u < v => CountLE(runs, u) < i + 1

\* QuantileDen * series.quantile(num / QuantileDen), linear interpolation at
\* position (len - 1) * num / QuantileDen
Quantile(runs, num) ==
    LET pos == (RunsLen(runs) - 1) * num
        lo == pos \div QuantileDen
        fr == pos % QuantileDen
        a == OrderStat(runs, lo)
        b == IF fr = 0 THEN a ELSE OrderStat(runs, lo + 1)
    IN QuantileDen * a + fr * (b - a)

\* _q_state; all three arguments carry the factor QuantileDen
q_state(cur, p20, p80) ==
    IF cur <= p20 THEN "LOW"
    ELSE IF cur >= p80 THEN "HIGH"
    ELSE "NORMAL"

ViewOf(window) ==
    LET cur == QuantileDen * LastValue(window)
        p20 == Quantile(window, LowQuantileNum)
        p80 == Quantile(window, HighQuantileNum)
    IN [cur |-> cur, p20 |-> p20, p80 |-> p80, state |-> q_state(cur, p20, p80)]

ConsensusTrustsNatr(n_state, b_state) ==
    IF n_state = b_state THEN [final |-> n_state, confidence |-> "high"]
    ELSE [final |-> n_state, confidence |-> "low"]

Consensus(n_state, b_state) ==
    IF n_state = b_state THEN [final |-> n_state, confidence |-> "high"]
    ELSE [final |-> "NORMAL", confidence |-> "low"]

\* returns [final, dbg]; dbg is None for the empty dict
classify_vol_state(df) ==
    IF IsNone(df.natr_14) \/ IsNone(df.bb_width) THEN [final |-> "UNKNOWN", dbg |-> None]
    ELSE
    LET natr == DropNaRuns(Val(df.natr_14))
        bbw == DropNaRuns(Val(df.bb_width))
    IN IF RunsLen(natr) < VolWindow \/ RunsLen(bbw) < VolWindow
       THEN [final |-> "UNKNOWN", dbg |-> None]
       ELSE LET n == ViewOf(TailRuns(natr, VolWindow))
                b == ViewOf(TailRuns(bbw, VolWindow))
                c == Consensus(n.state, b.state)
            IN [final |-> c.final,
                dbg |-> Some([final |-> c.final, confidence |-> c.confidence,
                              natr |-> n, bbw |-> b])]

(***************************************************************************)
(* Signal layers (src/strategy/signals.py).  Table prices are integer      *)
(* ticks; every price the layers derive (entry hint, breakout level, stop) *)
(* is in hundredths of a tick, which keeps the ATR multiples exact.        *)
(* Confidence and score are exact fractions [num, den] in lowest terms;    *)
(* strength and quality are hundredths.                                    *)
(***************************************************************************)
Side == {"LONG", "SHORT", "NONE"}
PriceScale == 100
RECURSIVE GCD(_, _)
GCD(a, b) == IF b = 0 THEN a ELSE GCD(b, a % b)
\* the fraction n / d (n >= 0, d > 0) in lowest terms
Rat(n, d) == [num |-> n \div GCD(n, d), den |-> d \div GCD(n, d)]
SetMax(S) == CHOOSE x \in S : \A y \in S : y <= x
SetMin(S) == CHOOSE x \in S : \A y \in S : x <= y

\* compute_direction tunables, in hundredths of confidence
ConfMomentum == 60
ConfSlopeBonus == 5
ConfSlopePenalty == 12
ConfExtPenaltyMax == 15
ConfPullback == 48
ConfPullbackTurn == 10
ConfBreakdown == 15
ConfTangled == 25
ConfAdxStrong == 15
ConfAdxWeak == 10
ConfNoneCap == 40
DirAdxStrong == 250
DirAdxWeak == 180
\* min_slope = 0.0002 = MinSlopeNum / SlopeDen; ext_limit = 0.02 and
\* ext_hard = 0.035 as ExtLimitNum / ExtDen and ExtHardNum / ExtDen
MinSlopeNum == 2
SlopeDen == 10000
ExtLimitNum == 20
ExtHardNum == 35
ExtDen == 1000
\* conf *= 0.60 as GateNum / GateDen
GateNum == 3
GateDen == 5

NoDirection == [side |-> "NONE", confidence |-> Rat(0, 1)]

\* df is what compute_direction reads of the 1h table: whether the four
\* columns exist, the row count, the last row and ema_20 of the row before.
\* conf is carried as a numerator over 100 * ema20.
compute_direction(df, allow_trend) ==
    IF ~df.has_cols \/ df.len < 2 THEN NoDirection
    ELSE
    LET close == df.close
        ema20 == df.ema_20
        ema50 == df.ema_50
        e == IF ema20 = 0 THEN 1 ELSE ema20
        \* slope_pct = s_num / s_den, ext = x_num / e
        s_num == IF df.ema_20_prev = 0 THEN 0 ELSE ema20 - df.ema_20_prev
        s_den == IF df.ema_20_prev = 0 THEN 1 ELSE df.ema_20_prev
        slope_ge_min == SlopeDen * s_num >= MinSlopeNum * s_den
        slope_le_negmin == SlopeDen * s_num <= -MinSlopeNum * s_den
        slope_lt_negmin == SlopeDen * s_num < -MinSlopeNum * s_den
        slope_gt_min == SlopeDen * s_num > MinSlopeNum * s_den
        x_num == IF ema20 = 0 THEN 0 ELSE close - ema20
        \* pen = ext_penalty_max * clamp((|ext| - ext_limit) / (ext_hard - ext_limit))
        PenOf(x) ==
            LET t_num == ExtDen * x - ExtLimitNum * e
                t_den == (ExtHardNum - ExtLimitNum) * e
                t_cl == Max(0, Min(t_den, t_num))
            IN (ConfExtPenaltyMax * e * t_cl) \div t_den
        bull == ema20 > ema50
        bear == ema20 < ema50
        A == IF bull THEN
                 IF close > ema20 THEN
                     [side |-> "LONG",
                      c |-> ConfMomentum * e
                            + (IF slope_ge_min THEN ConfSlopeBonus * e
                               ELSE -ConfSlopePenalty * e)
                            - (IF ExtDen * x_num > ExtLimitNum * e THEN PenOf(x_num) ELSE 0)]
                 ELSE IF close > ema50 THEN
                     [side |-> "LONG",
                      c |-> ConfPullback * e
                            - (IF slope_lt_negmin THEN ConfPullbackTurn * e ELSE 0)]
                 ELSE [side |-> "NONE", c |-> ConfBreakdown * e]
             ELSE IF bear THEN
                 IF close < ema20 THEN
                     [side |-> "SHORT",
                      c |-> ConfMomentum * e
                            + (IF slope_le_negmin THEN ConfSlopeBonus * e
                               ELSE -ConfSlopePenalty * e)
                            - (IF ExtDen * x_num < -ExtLimitNum * e THEN PenOf(-x_num) ELSE 0)]
                 ELSE IF close < ema50 THEN
                     [side |-> "SHORT",
                      c |-> ConfPullback * e
                            - (IF slope_gt_min THEN ConfPullbackTurn * e ELSE 0)]
                 ELSE [side |-> "NONE", c |-> ConfBreakdown * e]
             ELSE [side |-> "NONE", c |-> ConfTangled * e]
        c_adx == IF A.side = "NONE" THEN A.c
                 ELSE IF df.adx_14 >= DirAdxStrong THEN A.c + ConfAdxStrong * e
                 ELSE IF df.adx_14 <= DirAdxWeak THEN A.c - ConfAdxWeak * e
                 ELSE A.c
        gated == A.side # "NONE" /\ ~allow_trend
        num == IF gated THEN GateNum * c_adx ELSE c_adx
        den == IF gated THEN GateDen * 100 * e ELSE 100 * e
        clamped == Max(0, Min(den, num))
    IN [side |-> A.side,
        confidence |-> IF A.side = "NONE"
                       THEN Rat(Min(clamped, ConfNoneCap * e), 100 * e)
                       ELSE Rat(clamped, den)]

(***************************************************************************)
(* A 15m table: `warm` identical older rows (warm_bar) followed by the     *)
(* rows of `tail`, the last of which is the current bar.                   *)
(***************************************************************************)
TableLen(df) == df.warm + Len(df.tail)
\* df.iloc[-k]
RowFromEnd(df, k) ==
    IF k <= Len(df.tail) THEN df.tail[Len(df.tail) - k + 1] ELSE df.warm_bar
\* df.iloc[-(n + 1):-1]: the n rows before the current bar
RowsBefore(df, n) == {RowFromEnd(df, k) : k \in 2..(n + 1)}
\* df.iloc[-n:]
LastRows(df, n) == {RowFromEnd(df, k) : k \in 1..Min(n, TableLen(df))}

\* compute_trigger tunables; ATR multiples are hundredths
TriggerMinBars == 3
BreakoutWindow == 20
BreakoutPadStrict == 20
BreakoutPad == 5
PullbackBandStrict == 25
PullbackBand == 35
EmaTangleGap == 20
\* min_breakout_natr = 0.005 = MinBreakoutNatrNum / NatrDen
MinBreakoutNatrNum == 5
NatrDen == 1000
StrengthPullbackStrict == 62
StrengthPullback == 58
StrengthBreakoutStrict == 65
StrengthBreakout == 60

NoTrigger == [entry_ok |-> FALSE, entry_price_hint |-> None, strength |-> 0, is_breakout |-> FALSE]

\* section 7 of compute_trigger: the strict filters on an accepted trigger
StrictFilters(t, cur, strict_entry) ==
    IF t.entry_ok /\ strict_entry THEN
        IF PriceScale * Abs(cur.ema_20 - cur.ema_50) < EmaTangleGap * cur.atr_14 THEN NoTrigger
        ELSE IF t.is_breakout /\ NatrDen * cur.atr_14 < MinBreakoutNatrNum * cur.close
             THEN NoTrigger
             ELSE t
    ELSE t

BreakoutLevelsNoPad(window, breakout_pad) ==
    [up |-> PriceScale * SetMax({r.high : r \in window}),
     dn |-> PriceScale * SetMin({r.low : r \in window})]

\* lines 262-266: hh + breakout_pad and ll - breakout_pad
BreakoutLevels(window, breakout_pad) ==
    [up |-> PriceScale * SetMax({r.high : r \in window}) + breakout_pad,
     dn |-> PriceScale * SetMin({r.low : r \in window}) - breakout_pad]

compute_trigger(df_15m, dir_res, strict_entry) ==
    IF dir_res.side = "NONE" THEN NoTrigger
    ELSE IF ~df_15m.has_cols \/ TableLen(df_15m) < TriggerMinBars THEN NoTrigger
    ELSE
    LET cur == RowFromEnd(df_15m, 1)
        prev_close == PriceScale * RowFromEnd(df_15m, 2).close
        close == PriceScale * cur.close
        ema20 == PriceScale * cur.ema_20
        atr == cur.atr_14
        breakout_pad == IF strict_entry THEN BreakoutPadStrict * atr ELSE BreakoutPad * atr
        pullback_band == IF strict_entry THEN PullbackBandStrict * atr ELSE PullbackBand * atr
        is_green == cur.close > cur.open
        is_red == cur.close < cur.open
        in_bull_struct == cur.ema_20 >= cur.ema_50
        in_bear_struct == cur.ema_20 <= cur.ema_50
        near_ema20 == Abs(close - ema20) <= pullback_band
        reclaim == cur.low <= cur.ema_20 /\ cur.close >= cur.ema_20
        reject == cur.high >= cur.ema_20 /\ cur.close <= cur.ema_20
        pullback ==
            IF dir_res.side = "LONG" /\ in_bull_struct THEN
                /\ near_ema20 /\ cur.close >= cur.ema_20
                /\ IF strict_entry THEN reclaim /\ is_green ELSE reclaim \/ is_green
            ELSE IF dir_res.side = "SHORT" /\ in_bear_struct THEN
                /\ near_ema20 /\ cur.close <= cur.ema_20
                /\ IF strict_entry THEN reject /\ is_red ELSE reject \/ is_red
            ELSE FALSE
        win_len == Min(BreakoutWindow, TableLen(df_15m) - 1)
        window == RowsBefore(df_15m, win_len)
        up_level == BreakoutLevels(window, breakout_pad).up
        dn_level == BreakoutLevels(window, breakout_pad).dn
        t == IF pullback THEN
                 [entry_ok |-> TRUE, entry_price_hint |-> Some(close),
                  strength |-> IF strict_entry THEN StrengthPullbackStrict ELSE StrengthPullback,
                  is_breakout |-> FALSE]
             ELSE IF /\ dir_res.side = "LONG" /\ in_bull_struct
                     /\ prev_close < up_level /\ close >= up_level THEN
                 [entry_ok |-> TRUE, entry_price_hint |-> Some(up_level),
                  strength |-> IF strict_entry THEN StrengthBreakoutStrict ELSE StrengthBreakout,
                  is_breakout |-> TRUE]
             ELSE IF /\ ~(dir_res.side = "LONG" /\ in_bull_struct)
                     /\ dir_res.side = "SHORT" /\ in_bear_struct
                     /\ prev_close > dn_level /\ close <= dn_level THEN
                 [entry_ok |-> TRUE, entry_price_hint |-> Some(dn_level),
                  strength |-> IF strict_entry THEN StrengthBreakoutStrict ELSE StrengthBreakout,
                  is_breakout |-> TRUE]
             ELSE NoTrigger
    IN IF atr <= 0 THEN NoTrigger ELSE StrictFilters(t, cur, strict_entry)

\* PerpPosition.side_enum (src/data/models.py); szi is the signed size
side_enum(position) ==
    IF IsNone(position.szi) \/ Val(position.szi) = 0 THEN "NONE"
    ELSE IF Val(position.szi) > 0 THEN "LONG"
    ELSE "SHORT"

\* src.account.manager.position_stop_price: the trigger price of the
\* stop-loss order embedded in the position, or None
position_stop_price(position) == position.sl_trigger_px

\* compute_validity_and_risk tunables; ATR multiples are hundredths
ValidityMinBars == 30
KAtrStrict == 125
KAtr == 155
BreakoutStopPad == 25
SwingStopPad == 10
SwingWindow == 10
QualityFlat == 70
QualityFlatDrift == 30
DriftFlat == 35
DriftMinBars == 6
KTrailStrict == 110
KTrail == 135
TrailEmaPad == 25
ExitSwingPad == 5
FlipWindow == 20
FlipPad == 15
QualityInPos == 65
QualityInPosDrift == 20
DriftInPos == 40

NoValidity == [stop_price |-> None, exit_ok |-> FALSE, flip_ok |-> FALSE, quality |-> 0]

DriftQualityFromFull(df_5m, side, q0, drift_k, cut) ==
    IF IsNone(df_5m) THEN 100
    ELSE LET d == Val(df_5m)
             drift == PriceScale * (d.close_last - d.close_m3)
         IN IF d.len >= DriftMinBars /\ d.has_atr /\ d.atr_14 > 0
            THEN IF side = "LONG" /\ drift < -drift_k * d.atr_14 THEN 100 - cut
                 ELSE IF side = "SHORT" /\ drift > drift_k * d.atr_14 THEN 100 - cut
                 ELSE 100
            ELSE 100

\* quality after the 5m drift check; drift = close[-1] - close[-3]
DriftQuality(df_5m, side, q0, drift_k, cut) ==
    IF IsNone(df_5m) THEN q0
    ELSE LET d == Val(df_5m)
             drift == PriceScale * (d.close_last - d.close_m3)
         IN IF d.len >= DriftMinBars /\ d.has_atr /\ d.atr_14 > 0
            THEN IF side = "LONG" /\ drift < -drift_k * d.atr_14 THEN q0 - cut
                 ELSE IF side = "SHORT" /\ drift > drift_k * d.atr_14 THEN q0 - cut
                 ELSE q0
            ELSE q0

TightenForgetsOld(pos_side, old_stop, new_stop) == new_stop

\* lines 405 and 410: never loosen the stop the position already has
Tighten(pos_side, old_stop, new_stop) ==
    IF IsNone(old_stop) THEN new_stop
    ELSE IF pos_side = "LONG" THEN Max(Val(old_stop), new_stop)
    ELSE Min(Val(old_stop), new_stop)

FlipUngated(strict, allow_flip, exit_ok, reversal) == exit_ok /\ reversal

\* lines 426-441: flip_ok is evaluated under strict mode or allow_flip only
FlipOk(strict, allow_flip, exit_ok, reversal) ==
    (strict \/ allow_flip) /\ exit_ok /\ reversal

\* df_15m is None or a table that carries the columns read here
compute_validity_and_risk(df_15m, df_5m, dir_res, trg_res, strict, allow_flip, position) ==
    IF IsNone(df_15m) \/ TableLen(Val(df_15m)) < ValidityMinBars THEN NoValidity
    ELSE
    LET df == Val(df_15m)
        cur == RowFromEnd(df, 1)
        close15 == PriceScale * cur.close
        ema20_15 == PriceScale * cur.ema_20
        atr15 == cur.atr_14
        has_pos == ~IsNone(position) /\ ~IsNone(Val(position).szi)
                   /\ Abs(Val(Val(position).szi)) > 0
        swing_low == PriceScale * SetMin({r.low : r \in LastRows(df, SwingWindow)})
        swing_high == PriceScale * SetMax({r.high : r \in LastRows(df, SwingWindow)})
        \* A) flat
        hint == trg_res.entry_price_hint
        entry_ref == IF IsNone(hint) \/ Val(hint) = 0 THEN close15 ELSE Val(hint)
        atr_dist == IF strict THEN KAtrStrict * atr15 ELSE KAtr * atr15
        flat_stop ==
            IF dir_res.side = "LONG" THEN
                Max(entry_ref - atr_dist,
                    IF trg_res.is_breakout
                    THEN Max(entry_ref - BreakoutStopPad * atr15,
                             ema20_15 - BreakoutStopPad * atr15)
                    ELSE swing_low - SwingStopPad * atr15)
            ELSE
                Min(entry_ref + atr_dist,
                    IF trg_res.is_breakout
                    THEN Min(entry_ref + BreakoutStopPad * atr15,
                             ema20_15 + BreakoutStopPad * atr15)
                    ELSE swing_high + SwingStopPad * atr15)
        flat ==
            IF ~trg_res.entry_ok \/ dir_res.side = "NONE" THEN NoValidity
            ELSE [stop_price |-> Some(flat_stop), exit_ok |-> FALSE, flip_ok |-> FALSE,
                  quality |-> Max(0, Min(100,
                      DriftQuality(df_5m, dir_res.side, QualityFlat, DriftFlat,
                                   QualityFlatDrift)))]
        \* B) in position
        pos_side == side_enum(Val(position))
        trail_dist == IF strict THEN KTrailStrict * atr15 ELSE KTrail * atr15
        old_stop == position_stop_price(Val(position))
        new_stop == IF pos_side = "LONG"
                    THEN Max(ema20_15 - TrailEmaPad * atr15, close15 - trail_dist)
                    ELSE Min(ema20_15 + TrailEmaPad * atr15, close15 + trail_dist)
        stop_price == Tighten(pos_side, old_stop, new_stop)
        exit_ok ==
            IF pos_side = "LONG"
            THEN \/ close15 < swing_low - ExitSwingPad * atr15
                 \/ cur.ema_20 < cur.ema_50
                 \/ close15 <= stop_price
            ELSE \/ close15 > swing_high + ExitSwingPad * atr15
                 \/ cur.ema_20 > cur.ema_50
                 \/ close15 >= stop_price
        win_len == Min(FlipWindow, TableLen(df) - 1)
        window == RowsBefore(df, win_len)
        hh == PriceScale * SetMax({r.high : r \in window})
        ll == PriceScale * SetMin({r.low : r \in window})
        pad == FlipPad * atr15
        prev_close == PriceScale * RowFromEnd(df, 2).close
        flip_ok ==
            FlipOk(strict, allow_flip, exit_ok,
                   IF pos_side = "LONG"
                   THEN cur.ema_20 <= cur.ema_50 /\ prev_close > ll - pad
                        /\ close15 <= ll - pad
                   ELSE cur.ema_20 >= cur.ema_50 /\ prev_close < hh + pad
                        /\ close15 >= hh + pad)
        in_pos ==
            [stop_price |-> Some(stop_price), exit_ok |-> exit_ok, flip_ok |-> flip_ok,
             quality |-> Max(0, Min(100,
                 DriftQuality(df_5m, pos_side, QualityInPos, DriftInPos,
                              QualityInPosDrift)))]
    IN IF atr15 <= 0 THEN NoValidity
       ELSE IF has_pos THEN in_pos ELSE flat

\* score_signal; strength and quality are hundredths, so with
\* confidence = num / den the score is a fraction over 100 * den
ScoreDirWeight == 40
ScoreTrgWeight == 40
ScoreQualityWeight == 20
\* score *= 0.70 as TrendPenaltyNum / TrendPenaltyDen
TrendPenaltyNum == 7
TrendPenaltyDen == 10

TrendPenaltyOff(raw, allow_trend) == raw

TrendPenalty(raw, allow_trend) ==
    IF ~allow_trend THEN Rat(TrendPenaltyNum * raw.num, TrendPenaltyDen * raw.den) ELSE raw

score_signal(dir_res, trg_res, val_res, allow_trend) ==
    LET cn == dir_res.confidence.num
        cd == dir_res.confidence.den
        st == IF trg_res.entry_ok THEN trg_res.strength ELSE 0
        raw == Rat(ScoreDirWeight * 100 * cn
                   + (ScoreTrgWeight * st + ScoreQualityWeight * val_res.quality) * cd,
                   100 * cd)
    IN TrendPenalty(raw, allow_trend)

EntryThresholdStrict == 80
EntryThreshold == 70
TtlStrict == 45
Ttl == 120

SignalFromOneThreshold(dir_res, trg_res, val_res, allow_trend, strict_entry) ==
    LET score == score_signal(dir_res, trg_res, val_res, allow_trend)
    IN [side |-> dir_res.side,
        entry_ok |-> /\ trg_res.entry_ok
                     /\ score.num >= EntryThreshold * score.den
                     /\ dir_res.side # "NONE",
        add_ok |-> FALSE,
        exit_ok |-> val_res.exit_ok,
        flip_ok |-> val_res.flip_ok,
        entry_price_hint |-> trg_res.entry_price_hint,
        stop_price |-> val_res.stop_price,
        score |-> score,
        ttl_seconds |-> IF strict_entry THEN TtlStrict ELSE Ttl]

\* build_signal from line 502 on: score, threshold, entry rule, snapshot
SignalFrom(dir_res, trg_res, val_res, allow_trend, strict_entry) ==
    LET score == score_signal(dir_res, trg_res, val_res, allow_trend)
        entry_threshold == IF strict_entry THEN EntryThresholdStrict ELSE EntryThreshold
    IN [side |-> dir_res.side,
        entry_ok |-> /\ trg_res.entry_ok
                     /\ score.num >= entry_threshold * score.den
                     /\ dir_res.side # "NONE",
        add_ok |-> FALSE,
        exit_ok |-> val_res.exit_ok,
        flip_ok |-> val_res.flip_ok,
        entry_price_hint |-> trg_res.entry_price_hint,
        stop_price |-> val_res.stop_price,
        score |-> score,
        ttl_seconds |-> IF strict_entry THEN TtlStrict ELSE Ttl]

\* the three layers as build_signal calls them (lines 498-500)
LayersAfterTrigger(df_15m, df_5m, decision, position, dir_res, trg_res) ==
    [dir_res |-> dir_res, trg_res |-> trg_res,
     val_res |-> compute_validity_and_risk(Some(df_15m), df_5m, dir_res, trg_res,
                                           decision.strict_entry, decision.allow_flip,
                                           position)]

LayersAfterDirection(df_15m, df_5m, decision, position, dir_res) ==
    LayersAfterTrigger(df_15m, df_5m, decision, position, dir_res,
                       compute_trigger(df_15m, dir_res, decision.strict_entry))

Layers(df_1h, df_15m, df_5m, decision, position) ==
    LayersAfterDirection(df_15m, df_5m, decision, position,
                         compute_direction(df_1h, decision.allow_trend))

SignalOfLayers(l, decision) ==
    SignalFrom(l.dir_res, l.trg_res, l.val_res, decision.allow_trend, decision.strict_entry)

build_signal(df_1h, df_15m, df_5m, decision, position) ==
    SignalOfLayers(Layers(df_1h, df_15m, df_5m, decision, position), decision)

(***************************************************************************)
(* The layers on tables that lack columns (src/strategy/signals.py).  A    *)
(* table here is a full table together with the set of columns that are    *)
(* absent from it; reading an absent column raises KeyError.               *)
(***************************************************************************)
Returned(x) == [raised |-> FALSE, value |-> x]
Raised(e) == [raised |-> TRUE, error |-> e]
Lacks(t, cols) == t.missing \cap cols # {}

\* line 186: need_cols of compute_trigger
TriggerCols == {"open", "high", "low", "close", "ema_20", "ema_50", "atr_14"}
\* lines 319-322
ValidityCols == {"close", "ema_20", "ema_50", "atr_14"}
\* lines 351-352 and 414-415
SwingCols == {"low", "high"}

\* compute_trigger: the guard of lines 186-189 covers every column it reads
trigger_outcome(t, dir_res, strict_entry) ==
    Returned(compute_trigger([t.table EXCEPT !.has_cols = ~Lacks(t, TriggerCols)],
                             dir_res, strict_entry))

\* lines 372-375 and 444-447: the 5m drift reads close behind a guard on
\* atr_14 only
DriftRaises(f) ==
    /\ ~IsNone(f.table)
    /\ Val(f.table).len >= DriftMinBars
    /\ "atr_14" \notin f.missing
    /\ "close" \in f.missing
Table5m(f) ==
    IF IsNone(f.table) THEN None
    ELSE Some([Val(f.table) EXCEPT !.has_atr = "atr_14" \notin f.missing])

HasPosition(position) ==
    ~IsNone(position) /\ ~IsNone(Val(position).szi) /\ Abs(Val(Val(position).szi)) > 0

\* compute_validity_and_risk: only the bar count is guarded (line 314).
\* Lines 319-322 read four columns; the flat branch with an entry and the
\* in-position branch go on to read low, high and the 5m close.
ReadsSwing(t, dir_res, trg_res, position) ==
    /\ RowFromEnd(t.table, 1).atr_14 > 0
    /\ (HasPosition(position) \/ trg_res.entry_ok)
validity_outcome(t, f, dir_res, trg_res, strict, allow_flip, position) ==
    IF TableLen(t.table) >= ValidityMinBars /\ Lacks(t, ValidityCols)
    THEN Raised("KeyError")
    ELSE IF /\ TableLen(t.table) >= ValidityMinBars
            /\ ReadsSwing(t, dir_res, trg_res, position)
            /\ (Lacks(t, SwingCols) \/ DriftRaises(f))
    THEN Raised("KeyError")
    ELSE Returned(compute_validity_and_risk(Some(t.table), Table5m(f), dir_res, trg_res,
                                            strict, allow_flip, position))

\* build_signal, lines 498-519
OutcomeAfterValidity(dir_res, trg_res, val, decision) ==
    [dir_res |-> Returned(dir_res), trg_res |-> Returned(trg_res), val_res |-> val,
     signal |-> IF val.raised THEN val
                ELSE Returned(SignalFrom(dir_res, trg_res, val.value,
                                         decision.allow_trend, decision.strict_entry))]
OutcomeAfterTrigger(t, f, decision, position, dir_res, trg_res) ==
    OutcomeAfterValidity(dir_res, trg_res,
        validity_outcome(t, f, dir_res, trg_res, decision.strict_entry,
                         decision.allow_flip, position),
        decision)
OutcomeAfterDirection(t, f, decision, position, dir_res) ==
    OutcomeAfterTrigger(t, f, decision, position, dir_res,
                        trigger_outcome(t, dir_res, decision.strict_entry).value)
build_signal_outcome(df_1h, t, f, decision, position) ==
    OutcomeAfterDirection(t, f, decision, position,
                          compute_direction(df_1h, decision.allow_trend))

(***************************************************************************)
(* Backtest position bookkeeping (src/backtest_fn.py).  A position is the  *)
(* dict bt_open_position stores: side, qty, stop_price, take_profit.       *)
(***************************************************************************)
BarHitTargetFirst(row, side, sp, tp) ==
    LET lo == PriceScale * row.low
        hi == PriceScale * row.high
        hit_stop == /\ ~IsNone(sp)
                    /\ \/ side = "LONG" /\ lo <= Val(sp)
                       \/ side = "SHORT" /\ hi >= Val(sp)
        hit_tp == /\ ~IsNone(tp)
                  /\ \/ side = "LONG" /\ hi >= Val(tp)
                     \/ side = "SHORT" /\ lo <= Val(tp)
    IN IF hit_tp THEN Some([reason |-> "Take Profit", fill_px |-> Val(tp)])
       ELSE IF hit_stop THEN Some([reason |-> "Stop Loss", fill_px |-> Val(sp)])
       ELSE None

\* the body of the loop of _scan_sl_tp_barwise (lines 536-560) on one 5m
\* row: [reason, fill_px], or None when the row touches neither level
BarHit(row, side, sp, tp) ==
    LET lo == PriceScale * row.low
        hi == PriceScale * row.high
        hit_stop == /\ ~IsNone(sp)
                    /\ \/ side = "LONG" /\ lo <= Val(sp)
                       \/ side = "SHORT" /\ hi >= Val(sp)
        hit_tp == /\ ~IsNone(tp)
                  /\ \/ side = "LONG" /\ hi >= Val(tp)
                     \/ side = "SHORT" /\ lo <= Val(tp)
    IN IF hit_stop /\ hit_tp THEN Some([reason |-> "Stop Loss (both hit)", fill_px |-> Val(sp)])
       ELSE IF hit_stop THEN Some([reason |-> "Stop Loss", fill_px |-> Val(sp)])
       ELSE IF hit_tp THEN Some([reason |-> "Take Profit", fill_px |-> Val(tp)])
       ELSE None

\* `for ts, row in win.iterrows()` from row i on; ts is the row's place in
\* the window, whose rows are in time order
RECURSIVE ScanFrom(_, _, _, _, _)
ScanFrom(win, i, side, sp, tp) ==
    IF i > Len(win) THEN None
    ELSE IF ~IsNone(BarHit(win[i], side, sp, tp))
    THEN Some([reason |-> Val(BarHit(win[i], side, sp, tp)).reason,
               fill_px |-> Val(BarHit(win[i], side, sp, tp)).fill_px,
               ts |-> i])
    ELSE ScanFrom(win, i + 1, side, sp, tp)

\* _scan_sl_tp_barwise over the 5m rows of (t_prev, t]; a hit is
\* [reason, fill_px, ts], no hit is None
scan_sl_tp_barwise(win, side, sp, tp) == ScanFrom(win, 1, side, sp, tp)

\* bt_make_account_overview: the PerpPosition handed to build_signal; the
\* stored stop becomes the embedded stop-loss trigger
PrimaryPosition(p) ==
    IF IsNone(p) THEN None
    ELSE Some([szi |-> Some(IF Val(p).side = "LONG" THEN Val(p).qty ELSE -Val(p).qty),
               sl_trigger_px |-> Val(p).stop_price])

\* bt_update_stop_from_signal on an open position p
bt_update_stop_from_signal(p, new_stop) ==
    IF IsNone(new_stop) THEN p
    ELSE IF IsNone(p.stop_price) THEN [p EXCEPT !.stop_price = new_stop]
    ELSE IF p.side = "LONG"
         THEN [p EXCEPT !.stop_price = Some(Max(Val(p.stop_price), Val(new_stop)))]
    ELSE IF p.side = "SHORT"
         THEN [p EXCEPT !.stop_price = Some(Min(Val(p.stop_price), Val(new_stop)))]
    ELSE p

(***************************************************************************)
(* signal_to_trade_plan (src/strategy/planner.py).  The account value is   *)
(* in whole quote-currency units and one price tick is one quote unit, so  *)
(* a price p in hundredths of a tick is the fraction p / PriceScale.       *)
(* risk_pct, risk_scale and slippage are ten-thousandths.  Budgets,        *)
(* notionals and quantities are exact fractions [num, den].                *)
(***************************************************************************)
RatioDen == 10000
RMul(a, b) == Rat(a.num * b.num, a.den * b.den)
RDiv(a, b) == Rat(a.num * b.den, a.den * b.num)
RAdd(a, b) == Rat(a.num * b.den + b.num * a.den, a.den * b.den)
RLe(a, b) == a.num * b.den <= b.num * a.den
RMin(a, b) == IF RLe(a, b) THEN a ELSE b
RECURSIVE Pow10(_)
Pow10(k) == IF k = 0 THEN 1 ELSE 10 * Pow10(k - 1)

\* src.tools.utils.max_notional_by_equity: equity x leverage x a safety
\* buffer below 1
NotionalBufferPct == 95
max_notional_by_equity(account_value, leverage) ==
    Rat(account_value * leverage * NotionalBufferPct, 100)

\* src.tools.utils.estimate_qty_from_notional: the notional converted to a
\* quantity at the given price
estimate_qty_from_notional(notional, price) == RDiv(notional, Rat(price, PriceScale))

\* src.tools.utils.round_qty_by_decimals: qty rounded down to `decimals`
\* decimal places
round_qty_by_decimals(qty, decimals) ==
    Rat((qty.num * Pow10(decimals)) \div qty.den, Pow10(decimals))

\* src.account.manager.find_position / position_to_state: the account's
\* position in the symbol as (size, side), if it holds one
find_position(account) == account.position
position_to_state(pos_raw) ==
    [size |-> IF IsNone(pos_raw.szi) THEN 0 ELSE Abs(Val(pos_raw.szi)),
     side |-> side_enum(pos_raw)]

MarketScore == 90     \* signal.score >= 90 -> MARKET
RrNum == 18           \* rr = 1.8
RrDen == 10

\* every early return of the planner
RejectionSilent(post_only, reason) ==
    [action |-> "NONE", side |-> None, qty |-> Rat(0, 1), entry_type |-> "MARKET",
     entry_price |-> None, stop_price |-> None, take_profit |-> None,
     reduce_only |-> FALSE, post_only |-> post_only, reasons |-> <<>>]
Rejection(post_only, reason) ==
    [action |-> "NONE", side |-> None, qty |-> Rat(0, 1), entry_type |-> "MARKET",
     entry_price |-> None, stop_price |-> None, take_profit |-> None,
     reduce_only |-> FALSE, post_only |-> post_only, reasons |-> <<reason>>]

\* lines 50-55
SameSidePosition(account, side) ==
    /\ ~IsNone(find_position(account))
    /\ position_to_state(Val(find_position(account))).size > 0
    /\ position_to_state(Val(find_position(account))).side = side

\* line 59
RiskBudgetIgnoresEquity(account_value, risk_pct, risk_scale) ==
    RMul(Rat(risk_pct, RatioDen), Rat(risk_scale, RatioDen))
RiskBudget(account_value, risk_pct, risk_scale) ==
    RMul(Rat(account_value * risk_pct, RatioDen), Rat(risk_scale, RatioDen))

\* line 67, in hundredths of a tick
StopDistanceSigned(entry_ref, stop) == entry_ref - stop
StopDistance(entry_ref, stop) == Abs(entry_ref - stop)

\* lines 73-78: the smaller of the risk quantity and the notional-cap quantity
SizedQty(risk_budget, R, account_value, leverage, entry_ref) ==
    RMin(RDiv(risk_budget, Rat(R, PriceScale)),
         estimate_qty_from_notional(max_notional_by_equity(account_value, leverage),
                                    entry_ref))

\* lines 87-95
EntryTypeFromSeventy(score) == IF score.num >= 70 * score.den THEN "MARKET" ELSE "LIMIT"
EntryType(score) == IF score.num >= MarketScore * score.den THEN "MARKET" ELSE "LIMIT"
EntryPrice(side, score, entry_ref, slippage) ==
    IF EntryType(score) = "MARKET" THEN None
    ELSE IF side = "LONG" THEN Some(Rat(entry_ref * (RatioDen - slippage), RatioDen))
    ELSE Some(Rat(entry_ref * (RatioDen + slippage), RatioDen))

\* lines 98-101, in hundredths of a tick; a SHORT target below zero is kept
\* as the sign and the magnitude
TakeProfit(side, entry_ref, R) ==
    IF side = "LONG" THEN [neg |-> FALSE, abs |-> Rat(entry_ref * RrDen + RrNum * R, RrDen)]
    ELSE [neg |-> entry_ref * RrDen < RrNum * R,
          abs |-> Rat(Abs(entry_ref * RrDen - RrNum * R), RrDen)]

\* lines 81-115, given the rounded quantity
PlanSizedLongOnly(sig, post_only, slippage, qty) ==
    IF qty.num <= 0 THEN Rejection(post_only, "qty too small after rounding")
    ELSE [action |-> "OPEN", side |-> Some("LONG"), qty |-> qty,
          entry_type |-> EntryType(sig.score),
          entry_price |-> EntryPrice("LONG", sig.score,
                                     Val(sig.entry_price_hint), slippage),
          stop_price |-> sig.stop_price,
          take_profit |-> Some(TakeProfit("LONG", Val(sig.entry_price_hint),
                                          StopDistance(Val(sig.entry_price_hint),
                                                       Val(sig.stop_price)))),
          reduce_only |-> FALSE, post_only |-> post_only, reasons |-> sig.reasons]
PlanSized(sig, post_only, slippage, qty) ==
    IF qty.num <= 0 THEN Rejection(post_only, "qty too small after rounding")
    ELSE [action |-> "OPEN", side |-> Some(sig.side), qty |-> qty,
          entry_type |-> EntryType(sig.score),
          entry_price |-> EntryPrice(sig.side, sig.score,
                                     Val(sig.entry_price_hint), slippage),
          stop_price |-> sig.stop_price,
          take_profit |-> Some(TakeProfit(sig.side, Val(sig.entry_price_hint),
                                          StopDistance(Val(sig.entry_price_hint),
                                                       Val(sig.stop_price)))),
          reduce_only |-> FALSE, post_only |-> post_only, reasons |-> sig.reasons]

\* lines 57-84, once the signal, the regime and the position let the entry through
PlanEntry(sig, decision, account, asset, risk_pct, leverage, post_only, slippage) ==
    IF IsNone(sig.entry_price_hint) \/ IsNone(sig.stop_price)
    THEN Rejection(post_only, "missing entry_ref or stop_price")
    ELSE IF StopDistance(Val(sig.entry_price_hint), Val(sig.stop_price)) <= 0
    THEN Rejection(post_only, "invalid R (entry-stop <= 0)")
    ELSE PlanSized(sig, post_only, slippage,
             round_qty_by_decimals(
                 SizedQty(RiskBudget(account.account_value, risk_pct, decision.risk_scale),
                          StopDistance(Val(sig.entry_price_hint), Val(sig.stop_price)),
                          account.account_value, leverage, Val(sig.entry_price_hint)),
                 IF IsNone(asset.size_decimals) THEN 0 ELSE Val(asset.size_decimals)))

signal_to_trade_plan(sig, decision, account, asset, risk_pct, leverage, post_only, slippage) ==
    IF ~sig.entry_ok THEN Rejection(post_only, "signal.entry_ok = False")
    ELSE IF ~decision.allow_new_entry THEN Rejection(post_only, "regime disallows new entry")
    ELSE IF sig.side = "NONE" THEN Rejection(post_only, "signal.side = NONE")
    ELSE IF SameSidePosition(account, sig.side)
    THEN Rejection(post_only, "existing same-side position -> skip")
    ELSE PlanEntry(sig, decision, account, asset, risk_pct, leverage, post_only, slippage)

(***************************************************************************)
(* The backtest account (src/backtest_fn.py).  cash, quantities, prices    *)
(* and pnl are exact fractions; account["positions"] is the set of the     *)
(* dict's values, each carrying its key in `symbol`; trades is the list.   *)
(***************************************************************************)
RSub(a, b) == Rat(a.num * b.den - b.num * a.den, a.den * b.den)

\* dict operations on account["positions"]
DictGet(positions, symbol) ==
    IF \E q \in positions : q.symbol = symbol
    THEN Some(CHOOSE q \in positions : q.symbol = symbol)
    ELSE None
DictSet(positions, symbol, rec) == {q \in positions : q.symbol # symbol} \cup {rec}
DictPop(positions, symbol) == {q \in positions : q.symbol # symbol}

bt_new_account(initial_equity) ==
    [cash |-> initial_equity, positions |-> {}, trades |-> <<>>]

bt_has_position(account, symbol) ==
    /\ ~IsNone(DictGet(account.positions, symbol))
    /\ Val(DictGet(account.positions, symbol)).qty.num # 0

_fee(notional, fee_rate) == RMul(notional, fee_rate)

\* lines 284-292: the dict bt_open_position stores
OpenedPosition(symbol, side, qty, fill_price, ts, stop_price, take_profit) ==
    [symbol |-> symbol, side |-> side, qty |-> qty, entry_price |-> fill_price,
     entry_ts |-> ts, stop_price |-> stop_price, take_profit |-> take_profit]

\* returns [ok, account]
bt_open_position_overwrites(account, symbol, side, qty, fill_price, ts, stop_price, take_profit, fee_rate) ==
    IF qty.num <= 0 THEN [ok |-> FALSE, account |-> account]
    ELSE [ok |-> TRUE,
          account |->
              [account EXCEPT
                  !.cash = RSub(@, _fee(RMul(fill_price, qty), fee_rate)),
                  !.positions = DictSet(@, symbol,
                      OpenedPosition(symbol, side, qty, fill_price, ts, stop_price,
                                     take_profit))]]
bt_open_position(account, symbol, side, qty, fill_price, ts, stop_price, take_profit, fee_rate) ==
    IF bt_has_position(account, symbol) THEN [ok |-> FALSE, account |-> account]
    ELSE IF qty.num <= 0 THEN [ok |-> FALSE, account |-> account]
    ELSE [ok |-> TRUE,
          account |->
              [account EXCEPT
                  !.cash = RSub(@, _fee(RMul(fill_price, qty), fee_rate)),
                  !.positions = DictSet(@, symbol,
                      OpenedPosition(symbol, side, qty, fill_price, ts, stop_price,
                                     take_profit))]]

\* lines 313-320: pnl of closing position q at fill_price, fee taken off
ClosePnl(q, fill_price, fee_rate) ==
    RSub(IF q.side = "LONG"
         THEN RMul(RSub(fill_price, q.entry_price), q.qty)
         ELSE RMul(RSub(q.entry_price, fill_price), q.qty),
         _fee(RMul(fill_price, q.qty), fee_rate))

\* lines 324-336
Trade(q, fill_price, ts, reason, pnl) ==
    [symbol |-> q.symbol, side |-> q.side, qty |-> q.qty,
     entry_price |-> q.entry_price, exit_price |-> fill_price,
     entry_ts |-> q.entry_ts, exit_ts |-> ts, pnl |-> pnl,
     pnl_pct |-> IF RMul(q.entry_price, q.qty).num > 0
                 THEN RMul(RDiv(pnl, RMul(q.entry_price, q.qty)), Rat(100, 1))
                 ELSE Rat(0, 1),
     reason |-> reason]

\* returns [pnl, account]; pnl is None when there was nothing to close
bt_close_position(account, symbol, fill_price, ts, reason, fee_rate) ==
    IF ~bt_has_position(account, symbol) THEN [pnl |-> None, account |-> account]
    ELSE [pnl |-> Some(ClosePnl(Val(DictGet(account.positions, symbol)),
                                fill_price, fee_rate)),
          account |->
              [account EXCEPT
                  !.positions = DictPop(@, symbol),
                  !.cash = RAdd(@, ClosePnl(Val(DictGet(account.positions, symbol)),
                                            fill_price, fee_rate)),
                  !.trades = Append(@,
                      Trade(Val(DictGet(account.positions, symbol)), fill_price, ts,
                            reason,
                            ClosePnl(Val(DictGet(account.positions, symbol)),
                                     fill_price, fee_rate)))]]

\* bt_update_stop_from_signal on the account: only a held symbol is touched
UpdateStopInAccount(account, symbol, new_stop) ==
    IF ~bt_has_position(account, symbol) THEN account
    ELSE [account EXCEPT
             !.positions = DictSet(@, symbol,
                 bt_update_stop_from_signal(Val(DictGet(account.positions, symbol)),
                                            new_stop))]

\* run_backtest defaults
FeeRate == Rat(6, 10000)   \* fee_rate = 0.0006
BacktestSlippage == 10     \* slippage = 0.001

\* _apply_slippage for action "open", the price in ticks
OpenSlippage(price, side, slippage) ==
    IF side = "LONG" THEN Rat(price * (RatioDen + slippage), RatioDen)
    ELSE IF side = "SHORT" THEN Rat(price * (RatioDen - slippage), RatioDen)
    ELSE Rat(price, 1)

\* window_5m: the rows of df_5m with timestamp in (t0, t1]; timestamps are
\* seconds
window_5m_from_t0(df_5m, t0, t1) ==
    SelectSeq(df_5m, LAMBDA b : b.ts >= t0 /\ b.ts <= t1)
window_5m(df_5m, t0, t1) ==
    SelectSeq(df_5m, LAMBDA b : b.ts > t0 /\ b.ts <= t1)

\* _limit_filled_in_window; row prices in ticks, limit_price a fraction in
\* hundredths of a tick
_limit_filled_in_window(win, side, limit_price) ==
    IF Len(win) = 0 THEN FALSE
    ELSE IF side = "LONG"
    THEN RLe(Rat(SetMin({win[i].low : i \in 1..Len(win)}) * PriceScale, 1), limit_price)
    ELSE IF side = "SHORT"
    THEN RLe(limit_price, Rat(SetMax({win[i].high : i \in 1..Len(win)}) * PriceScale, 1))
    ELSE FALSE

\* run_backtest step 8 at decision time t on the account `held` says is
\* flat or not: [win, position]; win is None unless the LIMIT branch cut a
\* window, position is what bt_open_position stores on the flat account
\* (plan.qty > 0 is already established); the fee it takes off the cash is
\* not tracked here
OpenFromPlan(pl, fill_price, t) ==
    Some(OpenedPosition("BTC", Val(pl.side), pl.qty, fill_price, t, pl.stop_price,
                        pl.take_profit))
ExecuteOpen(pl, ttl_seconds, held, mid, df_5m, t) ==
    IF ~(pl.action = "OPEN" /\ ~held /\ pl.qty.num > 0 /\ ~IsNone(pl.side))
    THEN [win |-> None, position |-> None]
    ELSE IF pl.entry_type = "MARKET"
    THEN [win |-> None,
          position |-> OpenFromPlan(pl, OpenSlippage(mid, Val(pl.side),
                                                       BacktestSlippage),
                                    t)]
    ELSE [win |-> Some(window_5m(df_5m, t, t + ttl_seconds)),
          position |->
              IF /\ ~IsNone(pl.entry_price)
                 /\ Val(pl.entry_price).num > 0
                 /\ _limit_filled_in_window(window_5m(df_5m, t, t + ttl_seconds),
                                            Val(pl.side), Val(pl.entry_price))
              THEN OpenFromPlan(pl, RDiv(Val(pl.entry_price), Rat(PriceScale, 1)), t)
              ELSE None]

(***************************************************************************)
(* generate_trade_plan (src/strategy.py), from the multi-timeframe score   *)
(* on.  The score is in hundredths (-100 .. 100), the spread in tenths of  *)
(* a basis point, prices and ATR in ticks, stop and target in tenths of a  *)
(* tick, position sizes in whole units and plan amounts in hundredths of   *)
(* a unit; the cfg percentages are whole percents.                         *)
(***************************************************************************)
EdgeThreshold == 20        \* score >= 0.2 long, score <= -0.2 short
DecayThreshold == 20       \* long and score < -0.2, short and score > 0.2
LegacyMaxSpread == 120     \* spread_bps > 12
AtrStopMult == 15          \* StrategyConfig.atr_stop_mult = 1.5
AtrTpMult == 30            \* StrategyConfig.atr_tp_mult = 3.0
MinScoreToOpen == 35       \* StrategyConfig.min_score_to_open = 0.35

\* _evaluate_edge: direction and edge_score
_evaluate_edge(score) ==
    [direction |-> IF score >= EdgeThreshold THEN "long"
                   ELSE IF score <= -EdgeThreshold THEN "short"
                   ELSE "flat",
     edge_score |-> score]

\* _evaluate_confidence: "low" without a direction, else the quality the
\* timeframes' coverage, agreement and momentum add up to
_evaluate_confidence(edge, quality) ==
    IF edge.direction = "flat"
    THEN [quality |-> "low", notes |-> "no directional edge"]
    ELSE [quality |-> quality, notes |-> "coverage; alignment; momentum"]

NoRisk(reason) ==
    [allowed |-> FALSE, reason |-> reason, stop_loss |-> None, take_profit |-> None,
     position_size |-> 0]

\* _assess_risk; `amount` is what calc_amount_from_risk sizes
_assess_risk(equity, edge, atr, last_px, spread_bps, amount) ==
    IF edge.direction = "flat" THEN NoRisk("no directional edge, skip")
    ELSE IF spread_bps # 0 /\ spread_bps > LegacyMaxSpread THEN NoRisk("spread too wide")
    ELSE IF IsNone(atr) \/ Val(atr) <= 0 THEN NoRisk("ATR missing, no risk control")
    ELSE IF equity <= 0 THEN NoRisk("no account equity")
    ELSE [allowed |-> TRUE, reason |-> "ATR; spread; OB imbalance",
          stop_loss |-> Some(IF edge.direction = "long"
                             THEN 10 * last_px - AtrStopMult * Val(atr)
                             ELSE 10 * last_px + AtrStopMult * Val(atr)),
          take_profit |-> Some(IF edge.direction = "long"
                               THEN 10 * last_px + AtrTpMult * Val(atr)
                               ELSE 10 * last_px - AtrTpMult * Val(atr)),
          position_size |-> amount]

NotReady(reason) == [ready |-> FALSE, reason |-> reason]

\* line 881
BelowOpenScore(edge, cfg) == edge.edge_score < cfg.min_score_to_open

\* lines 877-880
NoScaleInGap(pos_side, pos_size, edge, desired_size, cfg) ==
    /\ pos_side = edge.direction /\ pos_size > 0
    /\ 100 * Max(desired_size - pos_size, 0)
           <= Max(desired_size * cfg.scale_in_min_gap_pct, 0)

_decide_trigger(pos_side, pos_size, edge, confidence, risk, desired_size, trigger_long, trigger_short, cfg) ==
    IF ~risk.allowed THEN NotReady(risk.reason)
    ELSE IF confidence.quality = "low" THEN NotReady("signal quality low")
    ELSE IF edge.direction = "long" /\ ~trigger_long THEN NotReady("no long trigger")
    ELSE IF edge.direction = "short" /\ ~trigger_short THEN NotReady("no short trigger")
    ELSE IF NoScaleInGap(pos_side, pos_size, edge, desired_size, cfg)
    THEN NotReady("same-side position, no scale-in gap")
    ELSE IF BelowOpenScore(edge, cfg) THEN NotReady("score below entry threshold")
    ELSE [ready |-> TRUE, reason |-> "all stages passed"]

LegacyPlan(action, score, reason) ==
    [action |-> action, direction |-> None, close_direction |-> None,
     open_amount |-> 0, close_amount |-> 0, stop_loss |-> None, take_profit |-> None,
     reason |-> reason, score |-> score]

\* the rationale build_open assembles
OpenReason == <<"Regime", "Edge", "Confidence", "Risk", "scores", "weights">>

build_open(score, risk, direction) ==
    [LegacyPlan("OPEN", score, OpenReason) EXCEPT
        !.direction = Some(direction), !.open_amount = 100 * risk.position_size,
        !.stop_loss = risk.stop_loss, !.take_profit = risk.take_profit]

build_add(score, risk, direction, add_amount) ==
    [LegacyPlan("ADD", score, <<"scale in">>) EXCEPT
        !.direction = Some(direction), !.open_amount = Max(add_amount, 0),
        !.stop_loss = risk.stop_loss, !.take_profit = risk.take_profit]

build_close(score, pos_side, pos_size, reason) ==
    [LegacyPlan("CLOSE", score, <<reason>>) EXCEPT
        !.direction = IF pos_side \in {"long", "short"} THEN Some(pos_side) ELSE None,
        !.close_amount = 100 * pos_size]

build_flip(score, risk, trigger, pos_side, pos_size, new_dir) ==
    [build_open(score, risk, new_dir) EXCEPT
        !.action = "FLIP", !.close_direction = Some(pos_side),
        !.close_amount = 100 * pos_size,
        !.reason = <<"flip", trigger.reason>> \o OpenReason]

build_reduce(score, risk, pos_side, reduce_amt) ==
    [LegacyPlan("REDUCE", score, <<"position above risk budget">>) EXCEPT
        !.direction = Some(pos_side), !.close_amount = Max(reduce_amt, 0),
        !.stop_loss = risk.stop_loss, !.take_profit = risk.take_profit]

\* lines 241-246
WantsAdd(pos_size, edge, confidence, target_size, cfg) ==
    /\ target_size > 0
    /\ 100 * (target_size - pos_size) > Max(target_size * cfg.scale_in_min_gap_pct, 0)
    /\ edge.edge_score >= cfg.min_score_to_add
    /\ confidence.quality # "low"

\* line 258
WantsReduce(pos_size, target_size, cfg) ==
    /\ 100 * pos_size > target_size * (100 + cfg.reduce_over_target_pct)
    /\ Max(target_size * cfg.reduce_step_pct, 0) > 0

\* lines 227-278, once the trigger is ready
ActOnTrigger(c, edge, confidence, risk, trigger) ==
    IF c.pos_side = "flat"
    THEN IF edge.direction = "long" /\ c.trigger_long
         THEN build_open(c.score, risk, "long")
         ELSE IF edge.direction = "short" /\ c.trigger_short
         THEN build_open(c.score, risk, "short")
         ELSE LegacyPlan("HOLD", c.score, <<"no valid entry trigger">>)
    ELSE IF c.pos_side = "long" /\ edge.direction = "short" /\ c.trigger_short
    THEN build_flip(c.score, risk, trigger, c.pos_side, c.pos_size, "short")
    ELSE IF c.pos_side = "short" /\ edge.direction = "long" /\ c.trigger_long
    THEN build_flip(c.score, risk, trigger, c.pos_side, c.pos_size, "long")
    ELSE IF c.pos_side = edge.direction
            /\ WantsAdd(c.pos_size, edge, confidence, risk.position_size, c.cfg)
    THEN build_add(c.score, risk, edge.direction,
                   Min(100 * (risk.position_size - c.pos_size),
                       Max(risk.position_size * c.cfg.scale_in_step_pct, 0)))
    ELSE IF c.pos_side = edge.direction
            /\ WantsReduce(c.pos_size, risk.position_size, c.cfg)
    THEN build_reduce(c.score, risk, c.pos_side,
                      Min(100 * (c.pos_size - risk.position_size),
                          Max(risk.position_size * c.cfg.reduce_step_pct, 0)))
    ELSE IF c.pos_side = "long" /\ c.score < -DecayThreshold
    THEN build_close(c.score, c.pos_side, c.pos_size, "long decayed, close")
    ELSE IF c.pos_side = "short" /\ c.score > DecayThreshold
    THEN build_close(c.score, c.pos_side, c.pos_size, "short decayed, close")
    ELSE LegacyPlan("HOLD", c.score, <<"in position, signal too weak to adjust">>)

\* lines 155-157
PlanOnTrigger(c, edge, confidence, risk, trigger) ==
    IF ~trigger.ready THEN LegacyPlan("HOLD", c.score, <<trigger.reason>>)
    ELSE ActOnTrigger(c, edge, confidence, risk, trigger)

\* lines 143-153
PlanOnRisk(c, edge, confidence, risk) ==
    PlanOnTrigger(c, edge, confidence, risk,
        _decide_trigger(c.pos_side, c.pos_size, edge, confidence, risk,
                        risk.position_size, c.trigger_long, c.trigger_short, c.cfg))

\* lines 132-142
PlanOnEdge(c, edge) ==
    PlanOnRisk(c, edge, _evaluate_confidence(edge, c.quality),
               _assess_risk(c.equity, edge, c.atr, Val(c.last_px), c.spread_bps, c.amount))

\* lines 118-278; c holds what lines 63-129 gather from the market data
generate_trade_plan(c) ==
    IF IsNone(c.last_px) THEN LegacyPlan("HOLD", c.score, <<"no current price">>)
    ELSE PlanOnEdge(c, _evaluate_edge(c.score))

(***************************************************************************)
(* Input families                                                          *)
(***************************************************************************)
MaxTail == 2

AdxValues == {165, 170, 175, 190, 195, 200, 225, 230, 240, 250, 255, 260, 300}
AdxSamples == {None} \cup {Some(v) : v \in AdxValues}
WarmCounts == {0, 48, 49, 50, 499}
WarmValues == {180, 240}

RECURSIVE SeqsUpTo(_, _)
SeqsUpTo(S, n) ==
    IF n = 0 THEN {<<>>}
    ELSE LET shorter == SeqsUpTo(S, n - 1)
         IN shorter \cup {Append(q, x) : q \in {r \in shorter : Len(r) = n - 1}, x \in S}

NoAdxCol == [has_col |-> FALSE, warm |-> 0, warm_val |-> 0, tail |-> <<>>]
AdxCols ==
    {NoAdxCol} \cup
    {[has_col |-> TRUE, warm |-> w, warm_val |-> wv, tail |-> t] :
        w \in WarmCounts, wv \in WarmValues,
        t \in SeqsUpTo(AdxSamples, MaxTail) \ {<<>>}}

DecideAdx == {None} \cup {Some(v) : v \in {195, 200, 250, 255, 300}}
MaxSpreadChoices == {20, 120}
OrderBooks ==
    {None} \cup
    {Some([spread_bps |-> sp, bid_depth_value |-> bd, ask_depth_value |-> ad,
           imbalance |-> im]) :
        sp \in {20, 50, 130},
        bd \in {None, Some(100000)},
        ad \in {Some(0), Some(50000), Some(100000)},
        im \in {-90, 0, 80}}
Timings ==
    {None} \cup
    {Some([adx_slope |-> a, bbw_slope |-> b]) :
        a \in {"UP", "DOWN", "FLAT"}, b \in {"UP", "DOWN", "FLAT"}}

NoCall == [called |-> FALSE]
DecideInputs ==
    {[called |-> TRUE, base |-> b, adx |-> a, vol_state |-> v, order_book |-> ob,
      timing |-> t, max_spread_bps |-> ms,
      min_depth |-> DefaultMinDepth, imbalance_limit |-> DefaultImbalanceLimit] :
        b \in MarketRegime, a \in DecideAdx, v \in VolState, ob \in OrderBooks,
        t \in Timings, ms \in MaxSpreadChoices}

MaxRuns == 3
RunValues == {None, Some(1), Some(2), Some(3)}
RunLengths == {39, 40, 121}
Runs == {[v |-> v, n |-> n] : v \in RunValues, n \in RunLengths}
\* run-length form: neighbouring runs hold different values
VolColumns(k) ==
    {c \in SeqsUpTo(Runs, k) \ {<<>>} :
        \A i \in 1..(Len(c) - 1) : c[i].v # c[i + 1].v}
Run(v, n) == [v |-> Some(v), n |-> n]
\* the other column: one history per outcome, and a missing column
ReferenceColumns ==
    {None,
     Some(<<Run(2, 121), Run(1, 40)>>),
     Some(<<Run(2, 121), Run(3, 40), Run(1, 39)>>),
     Some(<<Run(1, 121), Run(3, 40), Run(2, 39)>>),
     Some(<<Run(1, 121), Run(2, 40), Run(3, 39)>>)}
VolTable(natr, bbw) == [called |-> TRUE, natr_14 |-> natr, bb_width |-> bbw]

\* one indicator table per way of lacking volatility history: a field absent,
\* 161 samples, 199 samples among 239 rows, and 200 samples
FullColumn == Some(<<Run(1, 121), Run(3, 40), Run(2, 39)>>)
ThinColumns ==
    {None, FullColumn,
     Some(<<Run(2, 121), Run(1, 40)>>),
     Some(<<Run(1, 121), [v |-> None, n |-> 40], Run(2, 39), Run(3, 39)>>)}
ThinVolTables ==
    {VolTable(c, FullColumn) : c \in ThinColumns}
    \cup {VolTable(FullColumn, c) : c \in ThinColumns}

\* 1h rows: ema_20 at 100 ticks with ema_50 below, level and above
Tables1h ==
    {[has_cols |-> FALSE, len |-> 2, close |-> 0, ema_20 |-> 0, ema_50 |-> 0,
      adx_14 |-> 0, ema_20_prev |-> 0],
     [has_cols |-> TRUE, len |-> 1, close |-> 101, ema_20 |-> 100, ema_50 |-> 98,
      adx_14 |-> 250, ema_20_prev |-> 99]}
    \cup
    {[has_cols |-> TRUE, len |-> 2, close |-> c, ema_20 |-> 100, ema_50 |-> e50,
      adx_14 |-> a, ema_20_prev |-> pv] :
        c \in {97, 99, 101, 103}, e50 \in {98, 100, 102},
        a \in {180, 200, 250}, pv \in {99, 101}}

\* 15m candles around ema_20 = 1000 ticks: a green bar with a lower wick or a
\* red bar with an upper wick
Candle(shape, close, ema50, atr) ==
    IF shape = "green"
    THEN [open |-> close - 2, high |-> close, low |-> close - 8, close |-> close,
          ema_20 |-> 1000, ema_50 |-> ema50, atr_14 |-> atr]
    ELSE [open |-> close + 2, high |-> close + 8, low |-> close, close |-> close,
          ema_20 |-> 1000, ema_50 |-> ema50, atr_14 |-> atr]
WarmBar15 ==
    [open |-> 1000, high |-> 1010, low |-> 990, close |-> 1000,
     ema_20 |-> 1000, ema_50 |-> 1000, atr_14 |-> 20]
Tables15m ==
    {[has_cols |-> TRUE, warm |-> 40, warm_bar |-> WarmBar15,
      tail |-> <<Candle("green", 1004, 990, 0)>>]}
    \cup
    {[has_cols |-> TRUE, warm |-> w, warm_bar |-> WarmBar15,
      tail |-> <<Candle("green", 1016, 990, 20)>>] : w \in {1, 2}}
    \cup
    {[has_cols |-> TRUE, warm |-> 40, warm_bar |-> WarmBar15,
      tail |-> <<Candle(sh, c, e50, 20)>>] :
        sh \in {"green", "red"}, c \in {984, 990, 996, 1000, 1004, 1010, 1016},
        e50 \in {990, 1010}}
Tables5m ==
    {None} \cup
    {Some([len |-> 6, has_atr |-> TRUE, close_last |-> 1000 + d, close_m3 |-> 1000,
           atr_14 |-> 10]) : d \in {-4, 4}}
Gatings ==
    {[allow_trend |-> t, strict_entry |-> st, allow_flip |-> FALSE] :
        t \in BOOLEAN, st \in BOOLEAN}
    \cup {[allow_trend |-> TRUE, strict_entry |-> FALSE, allow_flip |-> TRUE]}
Positions ==
    {None} \cup {Some([szi |-> Some(z), sl_trigger_px |-> None]) : z \in {1, -1}}

\* one cycle of run_backtest on a flat or held account: the tables of the
\* cycle, the Decision, the position and the account value.  The 15m tables
\* include two whose ema_20 still carries a price spike that is older than
\* the 20-bar breakout window: ema_20 above the 20-bar high with ema_50
\* below it, and the mirror image
SpikeTables15m ==
    {[has_cols |-> TRUE, warm |-> 40, warm_bar |-> WarmBar15,
      tail |-> <<[Candle("green", 1016, 990, 20) EXCEPT !.ema_20 = 1030]>>],
     [has_cols |-> TRUE, warm |-> 40, warm_bar |-> WarmBar15,
      tail |-> <<[Candle("red", 984, 1010, 20) EXCEPT !.ema_20 = 970]>>]}
CycleTables1h == {t \in Tables1h : t.has_cols /\ t.len = 2 /\ t.adx_14 = 250}
CycleDecisions ==
    {[allow_trend |-> g.allow_trend, strict_entry |-> g.strict_entry,
      allow_flip |-> g.allow_flip, allow_new_entry |-> TRUE,
      risk_scale |-> NormalRisk] : g \in Gatings}
    \cup {[allow_trend |-> TRUE, strict_entry |-> FALSE, allow_flip |-> FALSE,
           allow_new_entry |-> FALSE, risk_scale |-> NormalRisk]}
LoopSlippage == 100        \* run_backtest: loop_slippage = 0.01
CycleInput(h, m, f, d, p) ==
    [called |-> TRUE, df_1h |-> h, df_15m |-> m, df_5m |-> f, decision |-> d,
     account |-> [account_value |-> 10000, position |-> p],
     asset |-> [size_decimals |-> Some(3)],
     risk_pct |-> 100, leverage |-> 5, post_only |-> FALSE, slippage |-> LoopSlippage]

\* calls on the backtest account: two symbols, quantities on both sides of
\* zero, a fill above the entry of 1000
Symbols == {"BTC", "ETH"}
OpenQtys == {Rat(-1, 1), Rat(0, 1), Rat(2, 1)}
FillPrices == {Rat(1010, 1)}
InitialEquity == Rat(10000, 1)
NewStops == {None, Some(99500)}
MaxTrades == 2

\* the clock of the backtest, in seconds: 1h decision times and the 5m rows
\* from a decision time on, both open times of exchange candles
FiveMinutes == 300
Hour == 3600
MaxBarsAfter == 2
DecisionTimes == {Hour, 2 * Hour}
FutureRows == {[low |-> 990, high |-> 1000], [low |-> 1005, high |-> 1012]}
Stamp(rows, t) ==
    [i \in 1..Len(rows) |->
        [ts |-> t + (i - 1) * FiveMinutes, low |-> rows[i].low, high |-> rows[i].high]]

\* layer results handed straight to the scoring step
LayerConfidences == {Rat(c, 100) : c \in {0, 40, 70, 80, 100}}
LayerStrengths == {0, 58, 60, 65, 100}
LayerQualities == {0, 40, 70, 80, 100}

TablesInput(h, m, f, g, p) ==
    [called |-> TRUE, kind |-> "tables", df_1h |-> h, df_15m |-> m, df_5m |-> f,
     decision |-> g, position |-> p]
LayersInput(sd, c, ok, st, q, g) ==
    [called |-> TRUE, kind |-> "layers",
     layers |-> [dir_res |-> [side |-> sd, confidence |-> c],
                 trg_res |-> [entry_ok |-> ok, entry_price_hint |-> None,
                              strength |-> st, is_breakout |-> FALSE],
                 val_res |-> [stop_price |-> None, exit_ok |-> FALSE,
                              flip_ok |-> FALSE, quality |-> q]],
     decision |-> g]

\* inputs of a backtest cycle that finds a position open
MaxScanBars == 2
ScanBars == {[low |-> 985, high |-> 1000], [low |-> 1015, high |-> 1045]}
ScanWindows == SeqsUpTo(ScanBars, MaxScanBars)
TrailCandle(close, ema20, ema50, atr) ==
    [open |-> close - 2, high |-> close + 2, low |-> close - 4, close |-> close,
     ema_20 |-> ema20, ema_50 |-> ema50, atr_14 |-> atr]
TrailTables15m ==
    {[has_cols |-> TRUE, warm |-> 20, warm_bar |-> WarmBar15,
      tail |-> <<TrailCandle(1000, 1000, 990, 20)>>]}
    \cup
    {[has_cols |-> TRUE, warm |-> 40, warm_bar |-> WarmBar15,
      tail |-> <<TrailCandle(c, e20, e50, atr)>>] :
        c \in {980, 1000, 1020, 1040}, e20 \in {1000, 1020}, e50 \in {990, 1030},
        atr \in {0, 20}}
Trail1h ==
    [has_cols |-> TRUE, len |-> 2, close |-> 101, ema_20 |-> 100, ema_50 |-> 98,
     adx_14 |-> 250, ema_20_prev |-> 99]
OpenPositions ==
    {Some([side |-> sd, qty |-> 1, stop_price |-> sp, take_profit |-> None]) :
        sd \in {"LONG", "SHORT"}, sp \in {None, Some(99000), Some(101000)}}
    \cup
    {Some([side |-> "LONG", qty |-> 1, stop_price |-> Some(99000),
           take_profit |-> Some(104000)]),
     Some([side |-> "SHORT", qty |-> 1, stop_price |-> Some(101000),
           take_profit |-> Some(98000)])}

\* signal_to_trade_plan calls: the signal's reference price is 100.00 and
\* its stop is 2.00 or 0.10 away on either side, at the reference, or
\* missing; the account value doubles from call to call
MaxDoublings == 2
BaseEquities == {0, 150, 10000}
SizeRefs == {None, Some(10000)}
SizeStops == {None, Some(9800), Some(9990), Some(10000), Some(10200)}
SizeSignal(sd, ok, ref, stop, sc) ==
    [side |-> sd, entry_ok |-> ok, entry_price_hint |-> ref, stop_price |-> stop,
     score |-> Rat(sc, 1), reasons |-> <<"trend entry">>]
SizeSignals ==
    {SizeSignal(sd, TRUE, ref, stop, sc) :
        sd \in {"LONG", "SHORT"}, ref \in SizeRefs, stop \in SizeStops, sc \in {75, 95}}
    \cup {SizeSignal("LONG", FALSE, Some(10000), Some(9800), 68),
          SizeSignal("NONE", TRUE, None, None, 75)}
SizeDecisions ==
    {[allow_new_entry |-> TRUE, risk_scale |-> NormalRisk],
     [allow_new_entry |-> TRUE, risk_scale |-> 5600],
     [allow_new_entry |-> FALSE, risk_scale |-> 6000]}
SizeAssets == {[size_decimals |-> d] : d \in {None, Some(1), Some(3)}}
SizeInput(s, d, e, p, a, lev) ==
    [called |-> TRUE, signal |-> s, decision |-> d,
     account |-> [account_value |-> e, position |-> p], asset |-> a,
     risk_pct |-> 100, leverage |-> lev, post_only |-> FALSE, slippage |-> 10,
     doublings |-> 0]

\* generate_trade_plan calls.  The target size calc_amount_from_risk returns
\* is 100 units; the scale-in and reduce settings are the cfg fields the
\* function reads
LegacyScores == {-60, -21, -20, 0, 20, 34, 35, 60}
LegacyPositions ==
    {[side |-> "flat", size |-> 0]}
    \cup {[side |-> sd, size |-> z] : sd \in {"long", "short"}, z \in {50, 100, 150}}
LegacyConfigs ==
    {[min_score_to_open |-> MinScoreToOpen, min_score_to_add |-> 45,
      scale_in_min_gap_pct |-> g, scale_in_step_pct |-> 50,
      reduce_over_target_pct |-> g, reduce_step_pct |-> 50] : g \in {0, 20}}
LegacyInput(sc, px, ps, tl, ts, q, sp, a, e, cfg) ==
    [called |-> TRUE, score |-> sc, last_px |-> px, pos_side |-> ps.side,
     pos_size |-> ps.size, trigger_long |-> tl, trigger_short |-> ts, quality |-> q,
     spread_bps |-> sp, atr |-> a, equity |-> e, amount |-> 100, cfg |-> cfg]

\* build_signal calls on tables that lack a column or are short: a rising
\* 1h table, with and without its columns and with a single row; 15m tables
\* of 41 and of 2 rows; a 5m table of 6 rows
MissingColumns15m ==
    {{}, {"close"}, {"ema_20"}, {"ema_50"}, {"atr_14"}, {"open"}, {"low"}, {"high"}}
DegradedTables1h ==
    {h \in Tables1h : ~h.has_cols \/ h.len = 1
                       \/ (h.close = 101 /\ h.ema_50 = 98 /\ h.adx_14 = 250
                           /\ h.ema_20_prev = 99)}
DegradedTables15m ==
    {[missing |-> ms,
      table |-> [has_cols |-> TRUE, warm |-> w, warm_bar |-> WarmBar15,
                 tail |-> <<Candle("green", c, 990, 20)>>]] :
        ms \in MissingColumns15m, w \in {1, 40}, c \in {1004, 1016}}
DegradedTables5m ==
    {[missing |-> {}, table |-> None]}
    \cup {[missing |-> ms,
           table |-> Some([len |-> 6, has_atr |-> TRUE, close_last |-> 1004,
                           close_m3 |-> 1000, atr_14 |-> 10])] :
            ms \in {{}, {"close"}, {"atr_14"}}}
DegradedInput(h, t, f, g, p) ==
    [called |-> TRUE, df_1h |-> h, df_15m |-> t, df_5m |-> f, decision |-> g,
     position |-> p]

\* _scan_sl_tp_barwise calls: 5m rows that touch the lower level, the upper
\* level, neither and both, with the levels of a long and of a short
\* position, either of which may be missing
ScanRows ==
    {[low |-> 985, high |-> 1000], [low |-> 1015, high |-> 1045],
     [low |-> 1002, high |-> 1008], [low |-> 985, high |-> 1045]}
ScanCalls ==
    {[called |-> TRUE, win |-> w, side |-> "LONG", stop_price |-> sp, take_profit |-> tp] :
        w \in SeqsUpTo(ScanRows, MaxScanBars),
        sp \in {None, Some(99000)}, tp \in {None, Some(104000)}}
    \cup
    {[called |-> TRUE, win |-> w, side |-> "SHORT", stop_price |-> sp, take_profit |-> tp] :
        w \in SeqsUpTo(ScanRows, MaxScanBars),
        sp \in {None, Some(101000)}, tp \in {None, Some(99000)}}

(***************************************************************************)
(* Spec: the regime label across cycles of start_trade                     *)
(* (src/core/engine.py).  The calls between the classification and the     *)
(* final assignment read `base` but never write RegimeState.               *)
(***************************************************************************)
IdleEngine ==
    /\ pc = "idle"
    /\ prev_base = "UNKNOWN"
    /\ df_adx = NoAdxCol
    /\ base = "UNKNOWN"
    /\ adx = None

IdleDecide == dr_in = NoCall /\ regime = None

IdleVol == vol_df = NoCall /\ vol_out = None

IdleSignal == sig_in = NoCall /\ sig_layers = None /\ signal = None

NoCycle == [ran |-> FALSE]
IdleTrail == bt_pos = None /\ trail = NoCycle

IdleSize == size_in = NoCall /\ plan = None /\ plan_half = None

IdleLegacy == leg_in = NoCall /\ leg_plan = None

IdleDegraded == deg_in = NoCall /\ deg_out = None

IdleScan == scan_in = NoCall /\ scan_out = None

IdlePipe == pipe_in = NoCall /\ pipe_out = None

IdleAccount == bt_account = None /\ bt_call = None

Init ==
    IdleEngine /\ IdleDecide /\ IdleVol /\ IdleSignal /\ IdleTrail /\ IdleSize /\ IdleLegacy /\ IdleDegraded /\ IdleScan /\ IdlePipe /\ IdleAccount

\* line 55: base, adx = classify_trend_range(df=indicators_1h, prev=state.prev_base)
Classify ==
    /\ pc = "idle"
    /\ \E col \in AdxCols :
          /\ df_adx' = col
          /\ base' = classify_trend_range(col, prev_base)[1]
          /\ adx' = classify_trend_range(col, prev_base)[2]
    /\ pc' = "classified"
    /\ UNCHANGED <<prev_base, varsDecide, varsVol, varsSignal, varsTrail, varsSize, varsLegacy, varsDegraded,
                   varsScan, varsPipe, varsAccount>>

\* lines 67-70 (asset_info missing) and line 96: state.prev_base = base, then
\* start_trade returns and its locals are gone
Commit ==
    /\ pc = "classified"
    /\ prev_base' = base
    /\ pc' = "idle"
    /\ df_adx' = NoAdxCol
    /\ base' = "UNKNOWN"
    /\ adx' = None
    /\ UNCHANGED <<varsDecide, varsVol, varsSignal, varsTrail, varsSize, varsLegacy, varsDegraded,
                   varsScan, varsPipe, varsAccount>>

Next == Classify \/ Commit

Spec == Init /\ [][Next]_vars

(***************************************************************************)
(* SpecDecide: decide_regime applied to every combination of its inputs    *)
(***************************************************************************)
InitDecide ==
    /\ IdleEngine /\ IdleVol /\ IdleSignal /\ IdleTrail /\ IdleSize /\ IdleLegacy /\ IdleDegraded
    /\ IdleScan /\ IdlePipe /\ IdleAccount
    /\ dr_in \in DecideInputs
    /\ regime = None

DecideRegime ==
    /\ dr_in.called
    /\ regime = None
    /\ regime' = Some(decide_regime(dr_in.base, dr_in.adx, dr_in.vol_state,
                                    dr_in.order_book, dr_in.timing,
                                    dr_in.max_spread_bps, dr_in.min_depth,
                                    dr_in.imbalance_limit))
    /\ UNCHANGED <<varsEngine, dr_in, varsVol, varsSignal, varsTrail, varsSize, varsLegacy, varsDegraded,
                   varsScan, varsPipe, varsAccount>>

NextDecide == DecideRegime

SpecDecide == InitDecide /\ [][NextDecide]_vars

(***************************************************************************)
(* SpecVol: classify_vol_state applied to tables of two indicator columns  *)
(***************************************************************************)
InitVol ==
    /\ IdleEngine /\ IdleDecide /\ IdleSignal /\ IdleTrail /\ IdleSize /\ IdleLegacy /\ IdleDegraded
    /\ IdleScan /\ IdlePipe /\ IdleAccount
    /\ \E c \in VolColumns(MaxRuns), r \in ReferenceColumns :
          \/ vol_df = VolTable(Some(c), r)
          \/ vol_df = VolTable(r, Some(c))
    /\ vol_out = None

ClassifyVol ==
    /\ vol_df.called
    /\ vol_out = None
    /\ vol_out' = Some(classify_vol_state(vol_df))
    /\ UNCHANGED <<varsEngine, varsDecide, vol_df, varsSignal, varsTrail, varsSize, varsLegacy, varsDegraded,
                   varsScan, varsPipe, varsAccount>>

NextVol == ClassifyVol

SpecVol == InitVol /\ [][NextVol]_vars

(***************************************************************************)
(* SpecSignal: build_signal on tables, and its scoring step on given       *)
(* layer results                                                           *)
(***************************************************************************)
InitSignal ==
    /\ IdleEngine /\ IdleDecide /\ IdleVol /\ IdleTrail /\ IdleSize /\ IdleLegacy /\ IdleDegraded
    /\ IdleScan /\ IdlePipe /\ IdleAccount
    /\ \/ \E h \in Tables1h, m \in Tables15m, f \in Tables5m, g \in Gatings,
               p \in Positions : sig_in = TablesInput(h, m, f, g, p)
       \/ \E sd \in Side, c \in LayerConfidences, ok \in BOOLEAN,
               st \in LayerStrengths, q \in LayerQualities, g \in Gatings :
               sig_in = LayersInput(sd, c, ok, st, q, g)
    /\ sig_layers = None
    /\ signal = None

BuildSignal ==
    /\ sig_in.called /\ sig_in.kind = "tables"
    /\ signal = None
    /\ sig_layers' = Some(Layers(sig_in.df_1h, sig_in.df_15m, sig_in.df_5m,
                                 sig_in.decision, sig_in.position))
    /\ signal' = Some(build_signal(sig_in.df_1h, sig_in.df_15m, sig_in.df_5m,
                                   sig_in.decision, sig_in.position))
    /\ UNCHANGED <<varsEngine, varsDecide, varsVol, sig_in, varsTrail, varsSize, varsLegacy, varsDegraded,
                   varsScan, varsPipe, varsAccount>>

\* lines 502-519 of build_signal on the layer results it is given
ScoreLayers ==
    /\ sig_in.called /\ sig_in.kind = "layers"
    /\ signal = None
    /\ sig_layers' = Some(sig_in.layers)
    /\ signal' = Some(SignalFrom(sig_in.layers.dir_res, sig_in.layers.trg_res,
                                 sig_in.layers.val_res, sig_in.decision.allow_trend,
                                 sig_in.decision.strict_entry))
    /\ UNCHANGED <<varsEngine, varsDecide, varsVol, sig_in, varsTrail, varsSize, varsLegacy, varsDegraded,
                   varsScan, varsPipe, varsAccount>>

NextSignal == BuildSignal \/ ScoreLayers

SpecSignal == InitSignal /\ [][NextSignal]_vars

(***************************************************************************)
(* SpecTrail: one position of the backtest from the cycle after its entry  *)
(* until it is closed (run_backtest, steps 1 and 4-6 of the loop body).    *)
(* Steps 7-8 cannot touch an open position; a position they open after a   *)
(* close is another run of this specification.                             *)
(***************************************************************************)
InitTrail ==
    /\ IdleEngine /\ IdleDecide /\ IdleVol /\ IdleSignal /\ IdleSize /\ IdleLegacy /\ IdleDegraded
    /\ IdleScan /\ IdlePipe /\ IdleAccount
    /\ bt_pos \in OpenPositions
    /\ trail = NoCycle

\* the most recent stop build_signal returned for this position, if any
LastReturned == IF trail.ran /\ ~IsNone(trail.returned) THEN trail.returned
                ELSE IF trail.ran THEN trail.last ELSE None

\* what steps 4-5 do to the open position p, given the signal
TrailUpdate(p, sig) ==
    [returned |-> sig.stop_price, exit_ok |-> sig.exit_ok,
     pos |-> bt_update_stop_from_signal(p, sig.stop_price)]

TrailStep(p, df, g) ==
    TrailUpdate(p, build_signal(Trail1h, df, None, g, PrimaryPosition(Some(p))))

TrailCycle ==
    /\ ~IsNone(bt_pos)
    /\ \E win \in ScanWindows, df \in TrailTables15m, g \in {x \in Gatings : x.allow_trend} :
       \E hit \in {scan_sl_tp_barwise(win, Val(bt_pos).side, Val(bt_pos).stop_price,
                                      Val(bt_pos).take_profit)},
          st \in {TrailStep(Val(bt_pos), df, g)} :
          IF ~IsNone(hit)
          THEN \* step 1: stopped out or target reached between the decisions
               /\ bt_pos' = None
               /\ trail' = [ran |-> TRUE, side |-> Val(bt_pos).side, hit |-> hit,
                            before |-> Val(bt_pos).stop_price, returned |-> None,
                            after |-> Val(bt_pos).stop_price, last |-> LastReturned,
                            exit_ok |-> FALSE]
          ELSE \* steps 4-6: signal, trailing update, strategy exit
               /\ bt_pos' = IF st.exit_ok THEN None ELSE Some(st.pos)
               /\ trail' = [ran |-> TRUE, side |-> Val(bt_pos).side, hit |-> None,
                            before |-> Val(bt_pos).stop_price, returned |-> st.returned,
                            after |-> st.pos.stop_price, last |-> LastReturned,
                            exit_ok |-> st.exit_ok]
    /\ UNCHANGED <<varsEngine, varsDecide, varsVol, varsSignal, varsSize, varsLegacy, varsDegraded,
                   varsScan, varsPipe, varsAccount>>

NextTrail == TrailCycle

SpecTrail == InitTrail /\ [][NextTrail]_vars

(***************************************************************************)
(* SpecSize: signal_to_trade_plan on one signal, regime and asset, called  *)
(* again each time the account value has doubled                           *)
(***************************************************************************)
InitSize ==
    /\ IdleEngine /\ IdleDecide /\ IdleVol /\ IdleSignal /\ IdleTrail /\ IdleLegacy /\ IdleDegraded
    /\ IdleScan /\ IdlePipe /\ IdleAccount
    /\ \E s \in SizeSignals, d \in SizeDecisions, e \in BaseEquities,
          p \in Positions, a \in SizeAssets, lev \in {1, 5} :
          size_in = SizeInput(s, d, e, p, a, lev)
    /\ plan = None
    /\ plan_half = None

PlanFor(c) ==
    signal_to_trade_plan(c.signal, c.decision, c.account, c.asset, c.risk_pct,
                         c.leverage, c.post_only, c.slippage)

DoubleEquity(c) ==
    [c EXCEPT !.account.account_value = 2 * @, !.doublings = @ + 1]

PlanTrade ==
    /\ size_in.called
    /\ plan = None
    /\ plan' = Some(PlanFor(size_in))
    /\ UNCHANGED <<varsEngine, varsDecide, varsVol, varsSignal, varsTrail,
                   size_in, plan_half, varsLegacy, varsDegraded, varsScan, varsPipe, varsAccount>>

PlanAtDoubleEquity ==
    /\ size_in.called
    /\ ~IsNone(plan)
    /\ size_in.doublings < MaxDoublings
    /\ size_in' = DoubleEquity(size_in)
    /\ plan_half' = plan
    /\ plan' = Some(PlanFor(DoubleEquity(size_in)))
    /\ UNCHANGED <<varsEngine, varsDecide, varsVol, varsSignal, varsTrail, varsLegacy, varsDegraded,
                   varsScan, varsPipe, varsAccount>>

NextSize == PlanTrade \/ PlanAtDoubleEquity

SpecSize == InitSize /\ [][NextSize]_vars

(***************************************************************************)
(* SpecLegacy: generate_trade_plan on every combination of score,          *)
(* position, 1m triggers, signal quality and risk inputs                   *)
(***************************************************************************)
InitLegacy ==
    /\ IdleEngine /\ IdleDecide /\ IdleVol /\ IdleSignal /\ IdleTrail /\ IdleSize
    /\ IdleDegraded /\ IdleScan /\ IdlePipe /\ IdleAccount
    /\ \E sc \in LegacyScores, px \in {None, Some(1000)}, ps \in LegacyPositions,
          tl \in BOOLEAN, ts \in BOOLEAN, q \in {"low", "high"}, sp \in {50, 130},
          a \in {None, Some(20)}, e \in {0, 10000}, cfg \in LegacyConfigs :
          leg_in = LegacyInput(sc, px, ps, tl, ts, q, sp, a, e, cfg)
    /\ leg_plan = None

GenerateTradePlan ==
    /\ leg_in.called
    /\ leg_plan = None
    /\ leg_plan' = Some(generate_trade_plan(leg_in))
    /\ UNCHANGED <<varsEngine, varsDecide, varsVol, varsSignal, varsTrail, varsSize,
                   leg_in, varsDegraded, varsScan, varsPipe, varsAccount>>

NextLegacy == GenerateTradePlan

SpecLegacy == InitLegacy /\ [][NextLegacy]_vars

(***************************************************************************)
(* SpecDegraded: build_signal on tables that lack columns or bars          *)
(***************************************************************************)
InitDegraded ==
    /\ IdleEngine /\ IdleDecide /\ IdleVol /\ IdleSignal /\ IdleTrail /\ IdleSize
    /\ IdleLegacy /\ IdleScan /\ IdlePipe /\ IdleAccount
    /\ \E h \in DegradedTables1h, t \in DegradedTables15m, f \in DegradedTables5m,
          g \in Gatings, p \in Positions :
          deg_in = DegradedInput(h, t, f, g, p)
    /\ deg_out = None

BuildOnDegraded ==
    /\ deg_in.called
    /\ deg_out = None
    /\ deg_out' = Some(build_signal_outcome(deg_in.df_1h, deg_in.df_15m, deg_in.df_5m,
                                            deg_in.decision, deg_in.position))
    /\ UNCHANGED <<varsEngine, varsDecide, varsVol, varsSignal, varsTrail, varsSize,
                   varsLegacy, deg_in, varsScan, varsPipe, varsAccount>>

NextDegraded == BuildOnDegraded

SpecDegraded == InitDegraded /\ [][NextDegraded]_vars

(***************************************************************************)
(* SpecData: the two classifiers of a cycle of start_trade on the same 1h  *)
(* indicator table                                                         *)
(***************************************************************************)
InitData ==
    /\ IdleEngine /\ IdleDecide /\ IdleVol /\ IdleSignal /\ IdleTrail /\ IdleSize
    /\ IdleLegacy /\ IdleDegraded /\ IdleScan /\ IdlePipe /\ IdleAccount

\* line 56: vol_state, vol_dbg = classify_vol_state(indicators_1h)
ClassifyVolInCycle ==
    /\ pc = "classified"
    /\ vol_out = None
    /\ \E t \in ThinVolTables :
          /\ vol_df' = t
          /\ vol_out' = Some(classify_vol_state(t))
    /\ UNCHANGED <<varsEngine, varsDecide, varsSignal, varsTrail, varsSize, varsLegacy,
                   varsDegraded, varsScan, varsPipe, varsAccount>>

\* line 96: state.prev_base = base; the cycle's locals are gone
CommitCycle ==
    /\ pc = "classified"
    /\ vol_out # None
    /\ prev_base' = base
    /\ pc' = "idle"
    /\ df_adx' = NoAdxCol
    /\ base' = "UNKNOWN"
    /\ adx' = None
    /\ vol_df' = NoCall
    /\ vol_out' = None
    /\ UNCHANGED <<varsDecide, varsSignal, varsTrail, varsSize, varsLegacy, varsDegraded,
                   varsScan, varsPipe, varsAccount>>

NextData == Classify \/ ClassifyVolInCycle \/ CommitCycle

SpecData == InitData /\ [][NextData]_vars

(***************************************************************************)
(* SpecScan: _scan_sl_tp_barwise on one window of 5m rows                  *)
(***************************************************************************)
InitScan ==
    /\ IdleEngine /\ IdleDecide /\ IdleVol /\ IdleSignal /\ IdleTrail /\ IdleSize
    /\ IdleLegacy /\ IdleDegraded /\ IdlePipe /\ IdleAccount
    /\ scan_in \in ScanCalls
    /\ scan_out = None

ScanWindow ==
    /\ scan_in.called
    /\ scan_out = None
    /\ scan_out' = Some(scan_sl_tp_barwise(scan_in.win, scan_in.side, scan_in.stop_price,
                                           scan_in.take_profit))
    /\ UNCHANGED <<varsEngine, varsDecide, varsVol, varsSignal, varsTrail, varsSize,
                   varsLegacy, varsDegraded, scan_in, varsPipe, varsAccount>>

NextScan == ScanWindow

SpecScan == InitScan /\ [][NextScan]_vars

(***************************************************************************)
(* SpecCycle: steps 4, 7 and 8 of a run_backtest cycle: build_signal on    *)
(* the cycle's tables, signal_to_trade_plan on its result, and the opening *)
(* of the planned position                                                 *)
(***************************************************************************)
InitCycle ==
    /\ IdleEngine /\ IdleDecide /\ IdleVol /\ IdleSignal /\ IdleTrail /\ IdleSize
    /\ IdleLegacy /\ IdleDegraded /\ IdleScan /\ IdleAccount
    /\ \E h \in CycleTables1h, m \in Tables15m \cup SpikeTables15m, f \in Tables5m,
          d \in CycleDecisions, p \in Positions :
          pipe_in = CycleInput(h, m, f, d, p)
    /\ pipe_out = None

\* the reason texts of the signal, which the plan copies, are left empty
CyclePlan(c, sig) ==
    [signal |-> sig,
     plan |-> signal_to_trade_plan(sig @@ [reasons |-> <<>>], c.decision, c.account, c.asset, c.risk_pct,
                                   c.leverage, c.post_only, c.slippage),
     executed |-> FALSE, t |-> None, df_5m |-> None, win |-> None, position |-> None]

PlanFromTables ==
    /\ pipe_in.called
    /\ pipe_out = None
    /\ pipe_out' = Some(CyclePlan(pipe_in,
                            build_signal(pipe_in.df_1h, pipe_in.df_15m, pipe_in.df_5m,
                                         pipe_in.decision, pipe_in.account.position)))
    /\ UNCHANGED <<varsEngine, varsDecide, varsVol, varsSignal, varsTrail, varsSize,
                   varsLegacy, varsDegraded, varsScan, pipe_in, varsAccount>>

\* steps 6 and 8: a position the exit signal closed is gone before the plan
\* is executed; the decision time and the 5m rows are recorded when the
\* LIMIT branch reads them
StillHeld(c, sig) == HasPosition(c.account.position) /\ ~sig.exit_ok
Executed(c, out, t, df) ==
    [signal |-> out.signal, plan |-> out.plan, executed |-> TRUE,
     t |-> IF IsNone(ExecuteOpen(out.plan, out.signal.ttl_seconds,
                                 StillHeld(c, out.signal), c.df_1h.close, df, t).win)
           THEN None ELSE Some(t),
     df_5m |-> IF IsNone(ExecuteOpen(out.plan, out.signal.ttl_seconds,
                                     StillHeld(c, out.signal), c.df_1h.close, df, t).win)
               THEN None ELSE Some(df),
     win |-> ExecuteOpen(out.plan, out.signal.ttl_seconds, StillHeld(c, out.signal),
                         c.df_1h.close, df, t).win,
     position |-> ExecuteOpen(out.plan, out.signal.ttl_seconds,
                              StillHeld(c, out.signal), c.df_1h.close, df, t).position]

ExecutePlan ==
    /\ ~IsNone(pipe_out)
    /\ ~Val(pipe_out).executed
    /\ \E t \in DecisionTimes, rows \in SeqsUpTo(FutureRows, MaxBarsAfter) :
          pipe_out' = Some(Executed(pipe_in, Val(pipe_out), t, Stamp(rows, t)))
    /\ UNCHANGED <<varsEngine, varsDecide, varsVol, varsSignal, varsTrail, varsSize,
                   varsLegacy, varsDegraded, varsScan, pipe_in, varsAccount>>

NextCycle == PlanFromTables \/ ExecutePlan

SpecCycle == InitCycle /\ [][NextCycle]_vars

(***************************************************************************)
(* SpecAccount: bt_open_position, bt_close_position and                    *)
(* bt_update_stop_from_signal called in any order on one account; bt_call  *)
(* keeps the last call, the account it was made on and what it returned    *)
(***************************************************************************)
InitAccount ==
    /\ IdleEngine /\ IdleDecide /\ IdleVol /\ IdleSignal /\ IdleTrail /\ IdleSize
    /\ IdleLegacy /\ IdleDegraded /\ IdleScan /\ IdlePipe
    /\ bt_account = Some(bt_new_account(InitialEquity))
    /\ bt_call = None

OpenPosition ==
    /\ ~IsNone(bt_account)
    /\ \E sym \in Symbols, sd \in {"LONG", "SHORT"}, q \in OpenQtys :
       \E r \in {bt_open_position(Val(bt_account), sym, sd, q, Rat(1000, 1),
                                  Len(Val(bt_account).trades), Some(99000),
                                  None, FeeRate)} :
          /\ bt_account' = Some(r.account)
          /\ bt_call' = Some([fn |-> "open", symbol |-> sym, qty |-> q,
                              before |-> Val(bt_account), ret |-> Some(r.ok)])
    /\ UNCHANGED <<varsEngine, varsDecide, varsVol, varsSignal, varsTrail, varsSize,
                   varsLegacy, varsDegraded, varsScan, varsPipe>>

ClosePosition ==
    /\ ~IsNone(bt_account)
    /\ Len(Val(bt_account).trades) < MaxTrades
    /\ \E sym \in Symbols, px \in FillPrices :
       \E r \in {bt_close_position(Val(bt_account), sym, px,
                                   Len(Val(bt_account).trades) + 1, "Strategy Exit",
                                   FeeRate)} :
          /\ bt_account' = Some(r.account)
          /\ bt_call' = Some([fn |-> "close", symbol |-> sym, qty |-> Rat(0, 1),
                              before |-> Val(bt_account), ret |-> r.pnl])
    /\ UNCHANGED <<varsEngine, varsDecide, varsVol, varsSignal, varsTrail, varsSize,
                   varsLegacy, varsDegraded, varsScan, varsPipe>>

UpdateStop ==
    /\ ~IsNone(bt_account)
    /\ \E sym \in Symbols, ns \in NewStops :
          /\ bt_account' = Some(UpdateStopInAccount(Val(bt_account), sym, ns))
          /\ bt_call' = Some([fn |-> "update_stop", symbol |-> sym, qty |-> Rat(0, 1),
                              before |-> Val(bt_account), ret |-> None])
    /\ UNCHANGED <<varsEngine, varsDecide, varsVol, varsSignal, varsTrail, varsSize,
                   varsLegacy, varsDegraded, varsScan, varsPipe>>

NextAccount == OpenPosition \/ ClosePosition \/ UpdateStop

SpecAccount == InitAccount /\ [][NextAccount]_vars

(***************************************************************************)
(* Claims                                                                  *)
(***************************************************************************)

\* C1: with each cycle's label fed back as prev, the label never goes from
\* TREND straight to RANGE nor from RANGE straight to TREND; in a cycle that
\* has a strength value, leaving TREND happens only with strength < 23 and
\* lands in MIXED; strength 24 or 25 with prev = TREND keeps TREND.
C1_Hysteresis ==
    pc = "classified" =>
        /\ ~(prev_base = "TREND" /\ base = "RANGE")
        /\ ~(prev_base = "RANGE" /\ base = "TREND")
        /\ (prev_base = "TREND" /\ base # "TREND" /\ ~IsNone(adx)
                => Val(adx) < 230 /\ base = "MIXED")
        /\ (prev_base = "TREND" /\ ~IsNone(adx) /\ Val(adx) \in {240, 250}
                => base = "TREND")

C1_Witness ==
    /\ pc = "classified"
    /\ prev_base = "TREND"
    /\ adx = Some(225)
    /\ base = "MIXED"

Decided == dr_in.called /\ ~IsNone(regime)
D == Val(regime)

\* the hard-stop conditions, read off the call's arguments
HardCondition ==
    \/ dr_in.base = "UNKNOWN"
    \/ dr_in.vol_state = "UNKNOWN"
    \/ IsNone(dr_in.adx)
    \/ (~IsNone(dr_in.order_book)
        /\ Val(dr_in.order_book).spread_bps > dr_in.max_spread_bps)

InDepth ==
    OrZero(Val(dr_in.order_book).bid_depth_value)
    + OrZero(Val(dr_in.order_book).ask_depth_value)

\* the four soft-stop situations, read off the call's arguments
SoftCondition ==
    \/ IsNone(dr_in.order_book)
    \/ (~IsNone(dr_in.order_book) /\ InDepth < dr_in.min_depth)
    \/ (~IsNone(dr_in.order_book)
        /\ Abs(Val(dr_in.order_book).imbalance) > dr_in.imbalance_limit)
    \/ (dr_in.vol_state = "HIGH" /\ dr_in.base \in {"RANGE", "MIXED"})

\* C2: any hard-stop condition yields action = STOP_ALL.
C2_HardStopIsStopAll ==
    Decided /\ HardCondition => D.action = "STOP_ALL"

InTiming == IF IsNone(dr_in.timing) THEN DefaultTiming ELSE Val(dr_in.timing)
InGates == Gates(dr_in.base, Val(dr_in.adx), dr_in.vol_state, InTiming)

\* C3: no hard stop, no soft stop and both strategy families gated off gives
\* NO_NEW_ENTRY with allow_new_entry = false; an OK Decision always allows
\* at least one strategy family.
C3_DeadEnd ==
    Decided =>
        /\ (D.action = "OK" => D.allow_trend \/ D.allow_mean)
        /\ (~HardCondition /\ ~SoftCondition
            /\ ~InGates.allow_trend /\ ~InGates.allow_mean
                => D.action = "NO_NEW_ENTRY" /\ ~D.allow_new_entry)

C3_Witness ==
    /\ Decided
    /\ ~HardCondition /\ ~SoftCondition
    /\ ~InGates.allow_trend /\ ~InGates.allow_mean
    /\ D.action = "NO_NEW_ENTRY"
    /\ D.reasons = <<"gate: bbw expanding disables mean">>

\* C4 as stated: without a hard stop, each of the four soft-stop situations
\* (depth below min_depth, extreme imbalance, HIGH volatility in RANGE/MIXED,
\* snapshot missing) yields NO_NEW_ENTRY with allow_new_entry = false and
\* allow_manage = true.
C4_SoftStop ==
    Decided /\ ~HardCondition /\ SoftCondition =>
        D.action = "NO_NEW_ENTRY" /\ ~D.allow_new_entry /\ D.allow_manage

SoftConditionPositiveDepth ==
    \/ IsNone(dr_in.order_book)
    \/ (~IsNone(dr_in.order_book) /\ 0 < InDepth /\ InDepth < dr_in.min_depth)
    \/ (~IsNone(dr_in.order_book)
        /\ Abs(Val(dr_in.order_book).imbalance) > dr_in.imbalance_limit)
    \/ (dr_in.vol_state = "HIGH" /\ dr_in.base \in {"RANGE", "MIXED"})

\* C4 amended: without a hard stop, a depth that is positive and below
\* min_depth, an extreme imbalance, HIGH volatility in RANGE/MIXED, or a
\* missing snapshot yields NO_NEW_ENTRY with allow_new_entry = false and
\* allow_manage = true, never OK; a present book of depth zero is not a
\* soft stop by itself.
C4_SoftStopPositiveDepth ==
    Decided /\ ~HardCondition /\ SoftConditionPositiveDepth =>
        D.action = "NO_NEW_ENTRY" /\ ~D.allow_new_entry /\ D.allow_manage

C4_Witness ==
    /\ Decided
    /\ ~HardCondition
    /\ ~IsNone(dr_in.order_book)
    /\ 0 < InDepth /\ InDepth < dr_in.min_depth
    /\ Abs(Val(dr_in.order_book).imbalance) <= dr_in.imbalance_limit
    /\ dr_in.vol_state = "NORMAL"
    /\ D.action = "NO_NEW_ENTRY"
    /\ D.reasons[1] = "order book thin"

\* C5: allow_manage is always true; allow_new_entry is false under STOP_ALL
\* and NO_NEW_ENTRY and true only under OK.
C5_ManageNeverBlocked ==
    Decided =>
        /\ D.allow_manage
        /\ (D.action \in {"STOP_ALL", "NO_NEW_ENTRY"} => ~D.allow_new_entry)
        /\ (D.allow_new_entry => D.action = "OK")

C5_Witness ==
    /\ Decided
    /\ HardCondition
    /\ D.allow_manage
    /\ ~D.allow_new_entry
    /\ D.risk_scale = HardRiskScale

VolDone == vol_df.called /\ ~IsNone(vol_out)
VolOut == Val(vol_out)

\* the non-NaN rows of a column, and how many of them precede the end of run j
Samples(col) == SelectSeq(Val(col), LAMBDA r : ~IsNone(r.v))
RECURSIVE RowsThrough(_, _)
RowsThrough(runs, j) == IF j = 0 THEN 0 ELSE runs[j].n + RowsThrough(runs, j - 1)

\* rows of run j that lie among the last VolWindow rows
InWindow(runs, j) ==
    LET total == RowsThrough(runs, Len(runs))
        last == RowsThrough(runs, j)
        first == Max(last - runs[j].n + 1, total - VolWindow + 1)
    IN Max(0, last - first + 1)

\* rows of the window strictly on one side of the current value
\* (side = -1: below it, side = 1: above it)
RECURSIVE WindowRows(_, _, _)
WindowRows(runs, j, side) ==
    IF j = 0 THEN 0
    ELSE (IF side * (Val(runs[j].v) - Val(runs[Len(runs)].v)) > 0
          THEN InWindow(runs, j) ELSE 0) + WindowRows(runs, j - 1, side)

HasVolWindow ==
    /\ ~IsNone(vol_df.natr_14) /\ ~IsNone(vol_df.bb_width)
    /\ RowsThrough(Samples(vol_df.natr_14), Len(Samples(vol_df.natr_14))) >= VolWindow
    /\ RowsThrough(Samples(vol_df.bb_width), Len(Samples(vol_df.bb_width))) >= VolWindow

\* at or below the 20th percentile: fewer than a fifth of the window lies
\* strictly below the current value; at or above the 80th: fewer than a fifth
\* lies strictly above it
RankState(col) ==
    LET runs == Samples(col)
    IN IF QuantileDen * WindowRows(runs, Len(runs), -1) < LowQuantileNum * VolWindow
       THEN "LOW"
       ELSE IF QuantileDen * WindowRows(runs, Len(runs), 1)
                 < (QuantileDen - HighQuantileNum) * VolWindow
            THEN "HIGH"
            ELSE "NORMAL"

\* C6: with 200 usable rows in both columns, each view is LOW when the
\* current value is at or below the 20th percentile of its last 200 rows,
\* HIGH when at or above the 80th, NORMAL otherwise; equal views give that
\* label with confidence high, different views give NORMAL with confidence
\* low, never LOW or HIGH.
C6_VolConsensus ==
    (VolDone /\ HasVolWindow) =>
        /\ ~IsNone(VolOut.dbg)
        /\ LET dbg == Val(VolOut.dbg)
           IN /\ dbg.natr.state = RankState(vol_df.natr_14)
              /\ dbg.bbw.state = RankState(vol_df.bb_width)
              /\ dbg.final = VolOut.final
              /\ dbg.natr.state = dbg.bbw.state =>
                    VolOut.final = dbg.natr.state /\ dbg.confidence = "high"
              /\ dbg.natr.state # dbg.bbw.state =>
                    VolOut.final = "NORMAL" /\ dbg.confidence = "low"

C6_Witness ==
    /\ VolDone /\ HasVolWindow
    /\ ~IsNone(VolOut.dbg)
    /\ Val(VolOut.dbg).natr.state = "HIGH"
    /\ Val(VolOut.dbg).bbw.state = "LOW"
    /\ Val(VolOut.dbg).natr.p20 < Val(VolOut.dbg).natr.p80
    /\ VolOut.final = "NORMAL"
    /\ Val(VolOut.dbg).confidence = "low"

SignalDone == sig_in.called /\ ~IsNone(signal) /\ ~IsNone(sig_layers)
Sig == Val(signal)
Lay == Val(sig_layers)

\* 10 * den * (40 conf + 40 (strength if the trigger fired, else 0) + 20 quality)
\* for conf = num / den and strength, quality in hundredths
CompositeTimes10Den ==
    400 * Lay.dir_res.confidence.num
    + (4 * (IF Lay.trg_res.entry_ok THEN Lay.trg_res.strength ELSE 0)
       + 2 * Lay.val_res.quality) * Lay.dir_res.confidence.den

\* the composite, times 0.70 when trend is disallowed, reaches the level
CompositeAtLeast(level) ==
    IF sig_in.decision.allow_trend
    THEN CompositeTimes10Den >= level * 10 * Lay.dir_res.confidence.den
    ELSE 7 * CompositeTimes10Den >= level * 100 * Lay.dir_res.confidence.den

\* C7: build_signal reports entry_ok exactly when the trigger's entry_ok is
\* true, the direction side is not NONE, and 40 x confidence + 40 x (strength
\* if the trigger's entry_ok else 0) + 20 x quality, times 0.70 when the
\* Decision disallows trend, is at least 80 under strict mode and 70
\* otherwise; the reported score is that composite.
C7_EntryRule ==
    SignalDone =>
        /\ Sig.entry_ok <=>
              /\ Lay.trg_res.entry_ok
              /\ Lay.dir_res.side # "NONE"
              /\ CompositeAtLeast(IF sig_in.decision.strict_entry THEN 80 ELSE 70)
        /\ Sig.score = IF sig_in.decision.allow_trend
                       THEN Rat(CompositeTimes10Den, 10 * Lay.dir_res.confidence.den)
                       ELSE Rat(7 * CompositeTimes10Den, 100 * Lay.dir_res.confidence.den)

\* confidence 0.7, strength 0.6, quality 0.8, trend allowed, non-strict:
\* the score is 68 and the entry is refused
C7_Witness ==
    /\ SignalDone
    /\ sig_in.kind = "layers"
    /\ Lay.dir_res.confidence = Rat(70, 100)
    /\ Lay.dir_res.side = "LONG"
    /\ Lay.trg_res.entry_ok /\ Lay.trg_res.strength = 60
    /\ Lay.val_res.quality = 80
    /\ sig_in.decision.allow_trend /\ ~sig_in.decision.strict_entry
    /\ Sig.score = Rat(68, 1)
    /\ ~Sig.entry_ok

\* C8: over the cycles of one open position, with each cycle's stop carried
\* forward as the position's protective stop, the stop a cycle returns and
\* the stop it leaves stored are, for a LONG, never below the stop returned
\* by an earlier cycle nor below the stop stored before the cycle; for a
\* SHORT never above.
C8_TrailingMonotone ==
    (trail.ran /\ IsNone(trail.hit)) =>
        LET NotLooser(new, old) ==
                (~IsNone(new) /\ ~IsNone(old)) =>
                    IF trail.side = "LONG" THEN Val(new) >= Val(old)
                    ELSE Val(new) <= Val(old)
        IN /\ NotLooser(trail.returned, trail.last)
           /\ NotLooser(trail.returned, trail.before)
           /\ NotLooser(trail.after, trail.before)
           /\ NotLooser(trail.after, trail.last)
           /\ ~IsNone(trail.before) => ~IsNone(trail.after)

\* a LONG position stays open while the market falls back: the candidate
\* stop of this cycle is below the carried one, and the carried one is kept
C8_Witness ==
    /\ trail.ran /\ IsNone(trail.hit) /\ trail.side = "LONG"
    /\ ~IsNone(bt_pos)
    /\ ~IsNone(trail.last) /\ ~IsNone(trail.returned)
    /\ Val(trail.last) > 99500
    /\ trail.returned = trail.last
    /\ trail.after = trail.returned

Planned == ~IsNone(plan)
P == Val(plan)
H == Val(plan_half)
InSignal == size_in.signal
InEquity == size_in.account.account_value
InDecimals == IF IsNone(size_in.asset.size_decimals) THEN 0
              ELSE Val(size_in.asset.size_decimals)
QtyStep == Rat(1, Pow10(InDecimals))

\* the entry is let through to sizing: the signal asks for one, the regime
\* allows new entries and the account holds no position on the signal's side
EntryPasses ==
    /\ InSignal.entry_ok
    /\ size_in.decision.allow_new_entry
    /\ InSignal.side # "NONE"
    /\ ~(~IsNone(size_in.account.position)
         /\ side_enum(Val(size_in.account.position)) = InSignal.side)
PricesGiven == ~IsNone(InSignal.entry_price_hint) /\ ~IsNone(InSignal.stop_price)
ClaimedDistance == Abs(Val(InSignal.entry_price_hint) - Val(InSignal.stop_price))

\* account_equity x risk_pct x risk_scale / |reference - stop| at equity e
ClaimedRiskQty(e) ==
    RDiv(RMul(RMul(Rat(e, 1), Rat(size_in.risk_pct, RatioDen)),
              Rat(size_in.decision.risk_scale, RatioDen)),
         Rat(ClaimedDistance, PriceScale))
\* maximum notional / reference price at equity e
ClaimedCapQty(e) ==
    RDiv(RMul(Rat(e * size_in.leverage, 1), Rat(NotionalBufferPct, 100)),
         Rat(Val(InSignal.entry_price_hint), PriceScale))
ClaimedQty(e) == RMin(ClaimedRiskQty(e), ClaimedCapQty(e))

IsRejection(p) == p.action = "NONE" /\ p.qty = Rat(0, 1) /\ Len(p.reasons) > 0
\* q is x rounded down to a multiple of QtyStep
RoundedDown(q, x) ==
    /\ Pow10(InDecimals) % q.den = 0
    /\ RLe(q, x)
    /\ ~RLe(RAdd(q, QtyStep), x)

\* C9: an entry that reaches sizing is planned with the quantity
\* min(equity x risk_pct x risk_scale / |reference - stop|, maximum notional
\* / reference) rounded down to the asset's quantity decimals; a missing
\* reference or stop price, a stop distance that is not positive, or a
\* quantity that rounds down to zero gives a no-order plan with quantity 0
\* and a reason.
C9_Sizing ==
    Planned /\ EntryPasses =>
        IF ~PricesGiven THEN IsRejection(P)
        ELSE IF ClaimedDistance <= 0 THEN IsRejection(P)
        ELSE IF ~RLe(QtyStep, ClaimedQty(InEquity)) THEN IsRejection(P)
        ELSE P.action = "OPEN" /\ RoundedDown(P.qty, ClaimedQty(InEquity))

\* the example: equity 10,000, risk 1%, scale 1.0, reference 100, stop 98,
\* leverage 5 is planned with quantity 50
C9_Witness ==
    /\ Planned /\ EntryPasses /\ PricesGiven
    /\ InEquity = 10000 /\ size_in.risk_pct = 100
    /\ size_in.decision.risk_scale = NormalRisk
    /\ InSignal.entry_price_hint = Some(10000) /\ InSignal.stop_price = Some(9800)
    /\ size_in.leverage = 5
    /\ P.action = "OPEN" /\ P.qty = Rat(50, 1)

Doubled == Planned /\ ~IsNone(plan_half)
HalfEquity == InEquity \div 2
CapBinds(e) == ~RLe(ClaimedRiskQty(e), ClaimedCapQty(e))
BothOpen == Doubled /\ H.action = "OPEN" /\ P.action = "OPEN"

\* C10 as stated: with everything but the equity held fixed, doubling the
\* equity doubles the planned quantity while the notional cap does not bind,
\* and leaves it unchanged once the cap binds.
C10_DoublingOrConstant ==
    BothOpen =>
        IF CapBinds(HalfEquity) THEN P.qty = H.qty
        ELSE P.qty = RMul(Rat(2, 1), H.qty)

\* C10 amended: with everything but the equity held fixed, whether the
\* notional cap binds does not depend on the equity, and in both cases the
\* quantity planned at twice the equity is at least twice the quantity
\* planned at the original equity and exceeds twice that quantity by at
\* most one quantity step; a planned quantity never stays constant.
C10_SizingScales ==
    Doubled /\ EntryPasses /\ PricesGiven /\ ClaimedDistance > 0 =>
        /\ CapBinds(InEquity) <=> CapBinds(HalfEquity)
        /\ RLe(RMul(Rat(2, 1), H.qty), P.qty)
        /\ RLe(P.qty, RAdd(RMul(Rat(2, 1), H.qty), QtyStep))
        /\ H.action = "OPEN" => P.action = "OPEN" /\ P.qty # H.qty

\* the cap binds and the quantity still grows with the equity
C10_Witness ==
    /\ BothOpen /\ EntryPasses
    /\ CapBinds(HalfEquity)
    /\ ~RLe(P.qty, H.qty)

SizesPositive ==
    /\ PricesGiven
    /\ ClaimedDistance > 0
    /\ RLe(QtyStep, ClaimedQty(InEquity))

Generated == ~IsNone(leg_plan)
LP == Val(leg_plan)
LegacyEdge == _evaluate_edge(leg_in.score).direction
\* the signal's own side carries a 1m trigger
OwnTrigger ==
    \/ LegacyEdge = "long" /\ leg_in.trigger_long
    \/ LegacyEdge = "short" /\ leg_in.trigger_short
OppositePosition ==
    \/ leg_in.pos_side = "long" /\ LegacyEdge = "short"
    \/ leg_in.pos_side = "short" /\ LegacyEdge = "long"
\* nothing but the position stands in the way of trading the signal: a
\* price, a usable risk assessment and a signal quality that is not low
Tradable ==
    /\ ~IsNone(leg_in.last_px)
    /\ leg_in.spread_bps <= LegacyMaxSpread
    /\ ~IsNone(leg_in.atr) /\ leg_in.equity > 0
    /\ leg_in.quality # "low"

\* C12: a position on the side opposite to the signal's side, with the
\* signal's own trigger fired, is answered with FLIP: the whole position is
\* closed, the signal's side is opened, and the rationale carries both legs;
\* it is never answered with a plain OPEN.
C12_FlipOnOpposite ==
    Generated /\ Tradable /\ OppositePosition /\ OwnTrigger =>
        /\ LP.action = "FLIP"
        /\ LP.close_direction = Some(leg_in.pos_side)
        /\ LP.close_amount = 100 * leg_in.pos_size
        /\ LP.direction = Some(LegacyEdge)

\* C13: a long position with score < -0.2, or a short position with
\* score > 0.2, for which no FLIP applies, is answered with CLOSE for the
\* full position size.
C13_CloseOnDecay ==
    (/\ Generated /\ ~IsNone(leg_in.last_px)
     /\ \/ leg_in.pos_side = "long" /\ leg_in.score < -DecayThreshold
        \/ leg_in.pos_side = "short" /\ leg_in.score > DecayThreshold
     /\ LP.action # "FLIP")
    => LP.action = "CLOSE" /\ LP.close_amount = 100 * leg_in.pos_size

\* C14: a position on the signal's side whose size exceeds
\* target x (1 + buffer) is answered with REDUCE, closing
\* min(position size - target, reduce step).
C14_ReduceOverTarget ==
    (/\ Generated /\ Tradable /\ OwnTrigger
     /\ leg_in.pos_side = LegacyEdge
     /\ 100 * leg_in.pos_size > leg_in.amount * (100 + leg_in.cfg.reduce_over_target_pct))
    => /\ LP.action = "REDUCE"
       /\ LP.close_amount = Min(100 * (leg_in.pos_size - leg_in.amount),
                                leg_in.amount * leg_in.cfg.reduce_step_pct)

\* C15 as stated: every plan that places no order has a non-empty reasons
\* list and the action HOLD.
C15_NoOrderIsHold ==
    Planned /\ P.action # "OPEN" => Len(P.reasons) > 0 /\ P.action = "HOLD"

\* C15 amended: every plan of signal_to_trade_plan that places no order has
\* the action NONE, quantity 0 and a non-empty reasons list; a signal whose
\* entry_ok is false is answered that way with the reason
\* "signal.entry_ok = False", whatever the other inputs are.
C15_NoOrderIsNoneWithReason ==
    /\ Planned /\ P.action # "OPEN" =>
           /\ P.action = "NONE"
           /\ P.qty = Rat(0, 1)
           /\ Len(P.reasons) > 0
           /\ \A i \in 1..Len(P.reasons) : P.reasons[i] # ""
    /\ Planned /\ ~InSignal.entry_ok =>
           P.action = "NONE" /\ P.reasons = <<"signal.entry_ok = False">>

\* the example: score 68 is below the threshold, entry_ok is false, there
\* is no position
C15_Witness ==
    /\ Planned
    /\ ~InSignal.entry_ok /\ InSignal.score = Rat(68, 1)
    /\ IsNone(size_in.account.position)
    /\ P.action = "NONE" /\ Len(P.reasons) = 1

Built == ~IsNone(deg_out)
Out == Val(deg_out)
\* a field a layer reads is absent, or a layer's minimum bar count is not met
Degraded ==
    \/ ~deg_in.df_1h.has_cols \/ deg_in.df_1h.len < 2
    \/ deg_in.df_15m.missing # {}
    \/ TableLen(deg_in.df_15m.table) < ValidityMinBars
    \/ deg_in.df_5m.missing # {}

\* C16: on a table that lacks a field a layer reads, or bars, every layer
\* and build_signal return a result instead of raising; build_signal never
\* raises when the 15m table lacks close, ema_20, ema_50 or atr_14, and the
\* signal it returns then has entry_ok false.
C16_NeverRaises ==
    Built /\ Degraded =>
        /\ ~Out.dir_res.raised /\ ~Out.trg_res.raised /\ ~Out.val_res.raised
        /\ ~Out.signal.raised
        /\ Lacks(deg_in.df_15m, ValidityCols) => ~Out.signal.value.entry_ok

\* the samples of the column that are not missing, and the latest of them
SampleCount(col) == col.warm + Cardinality({i \in DOMAIN col.tail : ~IsNone(col.tail[i])})
LatestSample(col) ==
    IF \E i \in DOMAIN col.tail : ~IsNone(col.tail[i])
    THEN Val(col.tail[CHOOSE i \in DOMAIN col.tail :
                        /\ ~IsNone(col.tail[i])
                        /\ \A j \in DOMAIN col.tail : j > i => IsNone(col.tail[j])])
    ELSE col.warm_val
HysteresisTable(prev, strength) ==
    CASE prev = "TREND" -> IF strength < 230 THEN "MIXED" ELSE "TREND"
      [] prev = "RANGE" -> IF strength > 190 THEN "MIXED" ELSE "RANGE"
      [] prev \in {"MIXED", "UNKNOWN"} ->
            IF strength >= 260 THEN "TREND"
            ELSE IF strength <= 170 THEN "RANGE"
            ELSE "MIXED"

\* C17: with at least 50 non-missing strength samples the label is the one
\* the hysteresis table gives for prev and the latest sample (TREND: MIXED
\* below 23 else TREND; RANGE: MIXED above 19 else RANGE; MIXED or UNKNOWN:
\* TREND from 26, RANGE up to 17, else MIXED), and the returned strength is
\* the latest sample.
C17_HysteresisTable ==
    pc = "classified" /\ df_adx.has_col /\ SampleCount(df_adx) >= 50 =>
        /\ base = HysteresisTable(prev_base, LatestSample(df_adx))
        /\ adx = Some(LatestSample(df_adx))

C17_Witness ==
    /\ pc = "classified"
    /\ prev_base = "RANGE"
    /\ df_adx.warm = 49
    /\ df_adx.tail = <<Some(170), Some(195)>>
    /\ base = "MIXED"
    /\ adx = Some(195)

\* the call's timing, with the default of line 94, and what the gates of
\* lines 108-179 make of the call's arguments
TrendStillAllowed ==
    /\ dr_in.base \in {"TREND", "MIXED"}
    /\ Val(dr_in.adx) >= 200
    /\ ~(InTiming.adx_slope = "DOWN" /\ Val(dr_in.adx) <= 250)
FadingStrongTrend ==
    InTiming.adx_slope = "DOWN" /\ TrendStillAllowed /\ Val(dr_in.adx) > 250
StrictActive == dr_in.vol_state = "LOW" /\ InTiming.bbw_slope # "UP"
\* <<risk_scale, cooldown_scale>> of the volatility baseline
Baseline ==
    CASE dr_in.vol_state = "HIGH" -> <<6000, 20000>>
      [] dr_in.vol_state = "LOW" -> <<8000, 15000>>
      [] dr_in.vol_state = "NORMAL" -> <<10000, 10000>>
ExampleCall ==
    /\ dr_in.base = "TREND" /\ dr_in.adx = Some(300) /\ dr_in.vol_state = "HIGH"
    /\ ~IsNone(dr_in.order_book)
    /\ Val(dr_in.order_book).spread_bps = 50 /\ dr_in.max_spread_bps = 120
    /\ InDepth >= dr_in.min_depth
    /\ Abs(Val(dr_in.order_book).imbalance) <= dr_in.imbalance_limit
    /\ InTiming.adx_slope # "DOWN"

\* C18: a Decision that is not a hard stop carries the cooldown scale of the
\* volatility baseline (HIGH 0.6/2.0, LOW 0.8/1.5, NORMAL 1.0/1.0) and the
\* baseline risk scale times 0.75 exactly when the strength slope is DOWN
\* with trend still allowed and strength above 25, times 0.7 exactly when
\* strict entry is active under LOW volatility.  Strength 30, regime TREND,
\* volatility HIGH and spread 5 bps under a 12 bps maximum give action OK,
\* allow_mean false and risk scale 0.6.
C18_RiskScales ==
    Decided /\ ~HardCondition =>
        /\ D.cooldown_scale = Baseline[2]
        /\ D.risk_scale * 10000 =
              Baseline[1] * (IF FadingStrongTrend THEN 75 ELSE 100)
                          * (IF StrictActive THEN 70 ELSE 100)
        /\ ExampleCall =>
              D.action = "OK" /\ ~D.allow_mean /\ D.risk_scale = 6000

C18_Witness ==
    /\ Decided /\ ~HardCondition
    /\ dr_in.vol_state = "LOW" /\ FadingStrongTrend /\ StrictActive
    /\ D.action = "OK"
    /\ D.risk_scale = 4200 /\ D.cooldown_scale = 15000

\* C19: without a hard-stop condition, LOW volatility with a band-width
\* slope that is not UP gives a Decision with strict_entry true in the
\* soft-stop, dead-end and green-light tiers alike; strict_entry is false
\* when volatility is not LOW or the band-width slope is UP.
C19_StrictEntry ==
    Decided =>
        /\ (~HardCondition /\ StrictActive => D.strict_entry)
        /\ (dr_in.vol_state # "LOW" \/ InTiming.bbw_slope = "UP" => ~D.strict_entry)

\* C20: no Decision allows trend when the strength is below 20, or when the
\* strength slope is DOWN and the strength is not above 25; with regime
\* TREND or MIXED, slope DOWN and strength above 25, a call that reaches
\* the gates comes back with allow_trend true.
C20_TrendGating ==
    Decided /\ ~IsNone(dr_in.adx) =>
        /\ (Val(dr_in.adx) < 200 => ~D.allow_trend)
        /\ (InTiming.adx_slope = "DOWN" /\ Val(dr_in.adx) <= 250 => ~D.allow_trend)
        /\ (/\ ~HardCondition
            /\ dr_in.base \in {"TREND", "MIXED"}
            /\ InTiming.adx_slope = "DOWN"
            /\ Val(dr_in.adx) > 250
            => D.allow_trend)

C20_Witness ==
    /\ Decided /\ ~HardCondition
    /\ dr_in.base = "MIXED"
    /\ dr_in.adx = Some(255)
    /\ InTiming.adx_slope = "DOWN"
    /\ D.action = "OK"
    /\ D.allow_trend

ThinAdx == ~df_adx.has_col \/ SampleCount(df_adx) < 50

\* C21: whatever the previous label, classify_trend_range answers UNKNOWN
\* with no strength value when the strength field is absent or has fewer
\* than 50 non-missing samples, and classify_vol_state answers UNKNOWN with
\* an empty detail when a volatility field is absent or has fewer than 200
\* non-missing samples.
C21_InsufficientData ==
    /\ (pc = "classified" /\ ThinAdx => base = "UNKNOWN" /\ adx = None)
    /\ (VolDone /\ ~HasVolWindow => VolOut.final = "UNKNOWN" /\ VolOut.dbg = None)

C21_Witness ==
    /\ pc = "classified"
    /\ prev_base = "TREND"
    /\ df_adx.has_col /\ SampleCount(df_adx) = 49
    /\ base = "UNKNOWN" /\ adx = None
    /\ VolDone
    /\ ~IsNone(vol_df.natr_14) /\ ~IsNone(vol_df.bb_width) /\ ~HasVolWindow
    /\ VolOut.final = "UNKNOWN" /\ VolOut.dbg = None

\* the 15m table of a build_signal call: its current bar, the close before
\* it, and the padded levels over the (up to) 20 bars before the current one
OnTables == SignalDone /\ sig_in.kind = "tables"
Bar == RowFromEnd(sig_in.df_15m, 1)
PrevClose == RowFromEnd(sig_in.df_15m, 2).close
Lookback ==
    {RowFromEnd(sig_in.df_15m, k) : k \in 2..(Min(20, TableLen(sig_in.df_15m) - 1) + 1)}
\* pad: 0.20 ATR under strict mode, 0.05 ATR otherwise
PadTimes100 == (IF sig_in.decision.strict_entry THEN 20 ELSE 5) * Bar.atr_14
UpLevelTimes100 == 100 * SetMax({r.high : r \in Lookback}) + PadTimes100
DnLevelTimes100 == 100 * SetMin({r.low : r \in Lookback}) - PadTimes100
\* the pullback pattern on the current bar
NearEma20 ==
    100 * Abs(Bar.close - Bar.ema_20)
        <= (IF sig_in.decision.strict_entry THEN 25 ELSE 35) * Bar.atr_14
PullbackLong ==
    /\ Lay.dir_res.side = "LONG" /\ Bar.ema_20 >= Bar.ema_50
    /\ NearEma20 /\ Bar.close >= Bar.ema_20
    /\ LET reclaim == Bar.low <= Bar.ema_20 /\ Bar.close >= Bar.ema_20
           green == Bar.close > Bar.open
       IN IF sig_in.decision.strict_entry THEN reclaim /\ green ELSE reclaim \/ green
PullbackShort ==
    /\ Lay.dir_res.side = "SHORT" /\ Bar.ema_20 <= Bar.ema_50
    /\ NearEma20 /\ Bar.close <= Bar.ema_20
    /\ LET reject == Bar.high >= Bar.ema_20 /\ Bar.close <= Bar.ema_20
           red == Bar.close < Bar.open
       IN IF sig_in.decision.strict_entry THEN reject /\ red ELSE reject \/ red
BreakoutEntry == Lay.trg_res.entry_ok /\ Lay.trg_res.is_breakout

\* C22: compute_trigger reports a breakout entry only on a crossing: the
\* previous close was on the wrong side of the padded level (highest high
\* or lowest low of the lookback window without the current bar, plus or
\* minus the pad) and the current close is at or beyond it; and only on a
\* bar where the pullback pattern did not fire.
C22_BreakoutIsCrossing ==
    OnTables /\ BreakoutEntry =>
        /\ Lay.dir_res.side \in {"LONG", "SHORT"}
        /\ Lay.dir_res.side = "LONG" =>
              100 * PrevClose < UpLevelTimes100 /\ 100 * Bar.close >= UpLevelTimes100
        /\ Lay.dir_res.side = "SHORT" =>
              100 * PrevClose > DnLevelTimes100 /\ 100 * Bar.close <= DnLevelTimes100
        /\ ~PullbackLong /\ ~PullbackShort

C22_Witness ==
    /\ OnTables /\ BreakoutEntry
    /\ Lay.dir_res.side = "SHORT"
    /\ 100 * PrevClose > DnLevelTimes100
    /\ 100 * Bar.close <= DnLevelTimes100
    /\ Lay.trg_res.entry_price_hint = Some(DnLevelTimes100)

HeldPosition ==
    /\ ~IsNone(sig_in.position) /\ ~IsNone(Val(sig_in.position).szi)
    /\ Val(Val(sig_in.position).szi) # 0
HeldLong == HeldPosition /\ Val(Val(sig_in.position).szi) > 0
\* a close through the lowest low (highest high) of the lookback window by
\* 0.15 ATR, coming from the other side of it
BreakdownUnderLong ==
    LET level == 100 * SetMin({r.low : r \in Lookback}) - 15 * Bar.atr_14
    IN 100 * PrevClose > level /\ 100 * Bar.close <= level
BreakoutOverShort ==
    LET level == 100 * SetMax({r.high : r \in Lookback}) + 15 * Bar.atr_14
    IN 100 * PrevClose < level /\ 100 * Bar.close >= level

\* C23: flip_ok is true only for an open position, only under strict mode or
\* allow_flip, and only together with exit_ok and a reversal breakout
\* against the position; without a position exit_ok and flip_ok are false.
C23_FlipOnlyOnReversal ==
    OnTables =>
        /\ Lay.val_res.flip_ok =>
              /\ HeldPosition
              /\ sig_in.decision.strict_entry \/ sig_in.decision.allow_flip
              /\ Lay.val_res.exit_ok
              /\ IF HeldLong THEN BreakdownUnderLong ELSE BreakoutOverShort
        /\ ~HeldPosition => ~Lay.val_res.exit_ok /\ ~Lay.val_res.flip_ok
        /\ Sig.flip_ok = Lay.val_res.flip_ok /\ Sig.exit_ok = Lay.val_res.exit_ok

C23_Witness ==
    /\ OnTables /\ HeldPosition /\ ~HeldLong
    /\ sig_in.decision.allow_flip /\ ~sig_in.decision.strict_entry
    /\ BreakoutOverShort
    /\ Lay.val_res.exit_ok /\ Lay.val_res.flip_ok

Scanned == scan_in.called /\ ~IsNone(scan_out)
ScanHit == Val(scan_out)
\* row i of the window reaches the stop, or the target, of the position
StopTouched(i) ==
    /\ ~IsNone(scan_in.stop_price)
    /\ IF scan_in.side = "LONG"
       THEN 100 * scan_in.win[i].low <= Val(scan_in.stop_price)
       ELSE 100 * scan_in.win[i].high >= Val(scan_in.stop_price)
TargetTouched(i) ==
    /\ ~IsNone(scan_in.take_profit)
    /\ IF scan_in.side = "LONG"
       THEN 100 * scan_in.win[i].high >= Val(scan_in.take_profit)
       ELSE 100 * scan_in.win[i].low <= Val(scan_in.take_profit)
Touched(i) == StopTouched(i) \/ TargetTouched(i)

\* C24: the scan returns the earliest row of the window, in time order, that
\* touches the stop or the target; a row touching both is reported as a
\* stop loss filled at the stop price, for LONG and SHORT alike; an empty
\* window, or one that touches neither level, returns nothing.
C24_EarliestHitStopFirst ==
    Scanned =>
        /\ IsNone(ScanHit) <=> \A i \in DOMAIN scan_in.win : ~Touched(i)
        /\ ~IsNone(ScanHit) =>
              LET h == Val(ScanHit) IN
              /\ h.ts \in DOMAIN scan_in.win
              /\ Touched(h.ts)
              /\ \A j \in 1..(h.ts - 1) : ~Touched(j)
              /\ StopTouched(h.ts) =>
                    /\ h.fill_px = Val(scan_in.stop_price)
                    /\ h.reason = IF TargetTouched(h.ts) THEN "Stop Loss (both hit)"
                                  ELSE "Stop Loss"
              /\ ~StopTouched(h.ts) =>
                    h.fill_px = Val(scan_in.take_profit) /\ h.reason = "Take Profit"

C24_Witness ==
    /\ Scanned /\ ~IsNone(ScanHit)
    /\ scan_in.side = "SHORT"
    /\ Len(scan_in.win) = 2
    /\ ~Touched(1)
    /\ StopTouched(2) /\ TargetTouched(2)
    /\ Val(ScanHit) = [reason |-> "Stop Loss (both hit)", fill_px |-> 101000, ts |-> 2]

\* C25: under a Decision with strict_entry, build_signal returns entry_ok
\* false whatever the tables and the position: the composite score is at
\* most 40 x 0.80 + 40 x 0.65 + 20 x 0.70 = 72, below the strict threshold
\* of 80.
C25_StrictNeverEnters ==
    OnTables /\ sig_in.decision.strict_entry =>
        /\ ~Sig.entry_ok
        /\ Sig.score.num <= 72 * Sig.score.den
        /\ 100 * Lay.dir_res.confidence.num <= 80 * Lay.dir_res.confidence.den
        /\ Lay.trg_res.strength <= 65
        /\ Lay.val_res.quality <= 70

C25_Witness ==
    /\ OnTables /\ sig_in.decision.strict_entry
    /\ Lay.trg_res.entry_ok /\ Lay.trg_res.is_breakout
    /\ Sig.score = Rat(72, 1)
    /\ ~Sig.entry_ok

\* C26: build_signal returns entry_ok true only for a breakout trigger, with
\* no position of non-zero size supplied, under a Decision that allows
\* trend: a pullback (strength 0.58), an in-position evaluation (quality
\* 0.65) or a trend-disallowed Decision (score x 0.70) leaves the composite
\* score below the non-strict threshold of 70.
C26_EntryOnlyOnBreakout ==
    OnTables =>
        /\ Sig.entry_ok =>
              /\ Lay.trg_res.is_breakout
              /\ ~HeldPosition
              /\ sig_in.decision.allow_trend
        /\ (/\ ~sig_in.decision.strict_entry
            /\ \/ Lay.trg_res.entry_ok /\ ~Lay.trg_res.is_breakout
               \/ HeldPosition
               \/ ~sig_in.decision.allow_trend)
           => Sig.score.num < 70 * Sig.score.den

C26_Witness ==
    /\ OnTables /\ Sig.entry_ok
    /\ Lay.trg_res.is_breakout /\ Lay.trg_res.strength = 60
    /\ IsNone(sig_in.position)
    /\ sig_in.decision.allow_trend /\ ~sig_in.decision.strict_entry
    /\ Lay.val_res.quality = 70
    /\ Sig.score = Rat(70, 1)

CyclePlanned == pipe_in.called /\ ~IsNone(pipe_out)
CycleSignal == Val(pipe_out).signal
CyclePlanOut == Val(pipe_out).plan
OpenPlan == CyclePlanned /\ CyclePlanOut.action = "OPEN"
EntryRef == Val(CycleSignal.entry_price_hint)
TargetAbove(tp, ref) == ~tp.neg /\ ref * tp.abs.den < tp.abs.num
TargetBelow(tp, ref) == tp.neg \/ tp.abs.num < ref * tp.abs.den

\* C27: every OPEN plan that signal_to_trade_plan returns for a signal of
\* build_signal has its stop on the losing side of the entry: for LONG,
\* stop_price < reference entry price < take_profit; for SHORT,
\* take_profit < reference entry price < stop_price.
C27_StopOnLosingSide ==
    OpenPlan =>
        IF CyclePlanOut.side = Some("LONG")
        THEN /\ Val(CyclePlanOut.stop_price) < EntryRef
             /\ TargetAbove(Val(CyclePlanOut.take_profit), EntryRef)
        ELSE /\ EntryRef < Val(CyclePlanOut.stop_price)
             /\ TargetBelow(Val(CyclePlanOut.take_profit), EntryRef)

LimitAt(ref, factor) == Some(Rat(ref * factor, RatioDen))

\* C29: the composite score of any signal of build_signal is below 90, so
\* every OPEN plan that signal_to_trade_plan derives from it has entry_type
\* LIMIT with a limit price of reference x (1 - slippage) for LONG and
\* reference x (1 + slippage) for SHORT; the MARKET branch is never taken.
C29_AlwaysLimit ==
    CyclePlanned =>
        /\ CycleSignal.score.num < 90 * CycleSignal.score.den
        /\ OpenPlan =>
              /\ CyclePlanOut.entry_type = "LIMIT"
              /\ CyclePlanOut.entry_price =
                    IF CyclePlanOut.side = Some("LONG")
                    THEN LimitAt(EntryRef, RatioDen - pipe_in.slippage)
                    ELSE LimitAt(EntryRef, RatioDen + pipe_in.slippage)

C29_Witness ==
    /\ OpenPlan
    /\ CyclePlanOut.side = Some("SHORT")
    /\ CycleSignal.score = Rat(70, 1)
    /\ EntryRef = 98900
    /\ CyclePlanOut.entry_type = "LIMIT"
    /\ CyclePlanOut.entry_price = Some(Rat(9988900, 100))

Account == Val(bt_account)
Called(fn) == ~IsNone(bt_call) /\ Val(bt_call).fn = fn
Before == Val(bt_call).before
HeldBefore == bt_has_position(Before, Val(bt_call).symbol)
PositionsOf(a, symbol) == {q \in a.positions : q.symbol = symbol}

\* C30: after any sequence of bt_open_position, bt_close_position and
\* bt_update_stop_from_signal calls the account holds at most one position
\* per symbol; bt_open_position on a symbol that already holds a position,
\* or with qty <= 0, returns False and leaves cash, positions and trades
\* unchanged; bt_close_position on a symbol with no position returns None
\* and leaves the account unchanged; a successful close removes the
\* position and appends exactly one trade.
C30_AccountDiscipline ==
    ~IsNone(bt_account) =>
        /\ \A sym \in Symbols : Cardinality(PositionsOf(Account, sym)) <= 1
        /\ (Called("open") /\ (HeldBefore \/ Val(bt_call).qty.num <= 0)) =>
              /\ Val(bt_call).ret = Some(FALSE)
              /\ Account = Before
        /\ (Called("close") /\ ~HeldBefore) =>
              /\ IsNone(Val(bt_call).ret)
              /\ Account = Before
        /\ (Called("close") /\ HeldBefore) =>
              /\ ~IsNone(Val(bt_call).ret)
              /\ PositionsOf(Account, Val(bt_call).symbol) = {}
              /\ Account.positions = Before.positions \ PositionsOf(Before, Val(bt_call).symbol)
              /\ Len(Account.trades) = Len(Before.trades) + 1
              /\ SubSeq(Account.trades, 1, Len(Before.trades)) = Before.trades

C30_Witness ==
    /\ Called("open") /\ HeldBefore /\ Val(bt_call).qty = Rat(2, 1)
    /\ Val(bt_call).ret = Some(FALSE)
    /\ Len(Account.trades) = 1
    /\ Cardinality(Account.positions) = 2

PlanExecuted == CyclePlanned /\ Val(pipe_out).executed
LimitPlan == OpenPlan /\ CyclePlanOut.entry_type = "LIMIT"
Touches(b) ==
    IF CyclePlanOut.side = Some("LONG")
    THEN RLe(Rat(b.low * PriceScale, 1), Val(CyclePlanOut.entry_price))
    ELSE RLe(Val(CyclePlanOut.entry_price), Rat(b.high * PriceScale, 1))
InTtlWindow(b) ==
    /\ Val(Val(pipe_out).t) < b.ts
    /\ b.ts <= Val(Val(pipe_out).t) + CycleSignal.ttl_seconds
Rows5m == Val(Val(pipe_out).df_5m)

\* C28: in run_backtest a LIMIT entry plan issued at decision time t opens
\* a position only if some 5m bar with timestamp in (t, t + ttl_seconds]
\* touches the limit price; ttl_seconds is 45 or 120 while 5m bars are 300
\* seconds apart and aligned with the hourly decision times, so the window
\* holds no bar and a LIMIT plan never opens a position.
C28_LimitNeverFills ==
    (PlanExecuted /\ LimitPlan /\ ~StillHeld(pipe_in, CycleSignal)) =>
        /\ CycleSignal.ttl_seconds \in {45, 120}
        /\ ~IsNone(Val(pipe_out).position) =>
              \E i \in 1..Len(Rows5m) : InTtlWindow(Rows5m[i]) /\ Touches(Rows5m[i])
        /\ Val(pipe_out).win = Some(<<>>)
        /\ IsNone(Val(pipe_out).position)

C28_Witness ==
    /\ PlanExecuted /\ LimitPlan
    /\ CyclePlanOut.side = Some("LONG")
    /\ Len(Rows5m) = 2
    /\ Rows5m[1].ts = Hour /\ Touches(Rows5m[1])
    /\ Rows5m[2].ts = Hour + FiveMinutes /\ Touches(Rows5m[2])
    /\ IsNone(Val(pipe_out).position)

====
